---- MODULE Spec2Model ----
(***************************************************************************)
(* Ingestion pipeline of the Aurora product knowledge base.                *)
(*                                                                         *)
(* Three programs write the relational store:                              *)
(*   - scripts/ingest_product_raw_ingredients_csv.py  (reviewed-CSV ingest)*)
(*   - scripts/ingest_skincare_ingredients_kb.py      (ingredient-KB)      *)
(*   - worker/ingest.py                               (ingest_one worker)  *)
(* A behaviour runs one of them (variable prog) against the store: db is   *)
(* the committed content, tx is what the open connection sees (committed   *)
(* content plus the uncommitted writes of the running transaction).        *)
(* A fourth kind of behaviour (prog = "fn") is one call of a function of   *)
(* the pipeline on drawn arguments, fn holding the call and its result:    *)
(* the identity lookups, the risk flags and the burn rate of the worker,   *)
(* the evidence merge of scripts/convert_csv_v6.py, the product index of   *)
(* scripts/export_crosswalk_conflicts.py and the best match of             *)
(* worker/kb_pack_autofill_local.py.                                       *)
(*                                                                         *)
(* Text is a sequence of one-character strings; multi-letter atoms stand   *)
(* for single code points or tokens that the code treats as a unit         *)
(* ("E'" is E-acute, "e'" is e-acute, "A_fw" is fullwidth A, "TAB" is a    *)
(* tab, "https"/"http"/"ftp" are scheme words, "p1".. are UUID strings).   *)
(***************************************************************************)
EXTENDS Integers, Sequences, FiniteSets, TLC

VARIABLES prog, db, tx, csv, kb, wk, fn

vars == <<prog, db, tx, csv, kb, wk, fn>>

(***************************************************************************)
(* Bounds of the model.                                                    *)
(***************************************************************************)
MaxCsvRuns == 2
MaxKbRuns == 2
MaxWorkerRuns == 2

(***************************************************************************)
(* Text helpers.                                                           *)
(***************************************************************************)
Empty == << >>

IsWs(c) == c \in {" ", "TAB"}

UpperToLower ==
  ("A" :> "a") @@ ("B" :> "b") @@ ("C" :> "c") @@ ("P" :> "p") @@
  ("X" :> "x") @@ ("Y" :> "y") @@ ("N" :> "n") @@ ("E" :> "e") @@ ("E'" :> "e'") @@
  ("HTTPS" :> "https") @@ ("HTTP" :> "http")

\* str.casefold / str.lower on one character.
CaseFoldChar(c) == IF c \in DOMAIN UpperToLower THEN UpperToLower[c] ELSE c

Nfkc(s) == [i \in 1..Len(s) |-> (IF (s[i]) = "A_fw" THEN "A" ELSE (s[i]))]
CaseFold(s) == [i \in 1..Len(s) |-> CaseFoldChar(s[i])]

RECURSIVE LStrip(_)
LStrip(s) == IF s # Empty /\ IsWs(s[1]) THEN LStrip(Tail(s)) ELSE s

RECURSIVE RStrip(_)
RStrip(s) ==
  IF s # Empty /\ IsWs(s[Len(s)]) THEN RStrip(SubSeq(s, 1, Len(s) - 1)) ELSE s

\* str.strip()
Strip(s) == RStrip(LStrip(s))

\* re.sub(r"\s+", " ", s): every run of whitespace becomes one blank.
RECURSIVE CollapseWs(_)
CollapseWs(s) ==
  IF s = Empty THEN Empty
  ELSE IF IsWs(s[1])
       THEN <<" ">> \o CollapseWs(LStrip(s))
       ELSE <<s[1]>> \o CollapseWs(Tail(s))

norm_str(s) == Strip(s)

normalize_key(value) == Strip(CollapseWs(CaseFold(Nfkc(value))))

normalize_crosswalk_ref(value) == CollapseWs(CaseFold(Strip(Nfkc(value))))

\* normalize_alias_text of the reviewed-CSV ingest script.
csv_normalize_alias_text(text) ==
  Strip(CollapseWs(([i \in 1..Len((CaseFold(Nfkc(text)))) |-> IF (((CaseFold(Nfkc(text)))[i]) \in
      {"-", ".", ":", "/", "?", "#", "|"}) THEN " " ELSE (CaseFold(Nfkc(text)))[i]])))

(***************************************************************************)
(* URL references.                                                         *)
(***************************************************************************)
\* Index of the first element of s that is in stops, Len(s)+1 when none.
RECURSIVE FirstOf(_, _, _)
FirstOf(s, stops, i) ==
  IF i > Len(s) THEN Len(s) + 1
  ELSE IF s[i] \in stops THEN i ELSE FirstOf(s, stops, i + 1)

\* urlparse(raw): scheme, netloc and path of an absolute or relative reference.
UrlParse(raw) ==
  LET hasScheme == Len(raw) >= 2 /\ raw[2] = ":" /\
                   raw[1] \in {"http", "https", "ftp", "HTTP", "HTTPS"}
      scheme == IF hasScheme THEN CaseFoldChar(raw[1]) ELSE ""
      rest == IF hasScheme THEN SubSeq(raw, 3, Len(raw)) ELSE raw
      hasNet == Len(rest) >= 2 /\ rest[1] = "/" /\ rest[2] = "/"
      afterNet == IF hasNet THEN SubSeq(rest, 3, Len(rest)) ELSE rest
      netEnd == IF hasNet THEN FirstOf(afterNet, {"/", "?", "#"}, 1) ELSE 1
      netloc == SubSeq(afterNet, 1, netEnd - 1)
      tail == SubSeq(afterNet, netEnd, Len(afterNet))
      pathEnd == FirstOf(tail, {"?", "#"}, 1)
  IN [scheme |-> scheme, netloc |-> netloc, path |-> SubSeq(tail, 1, pathEnd - 1)]

\* re.sub(r"/{2,}", "/", path)
RECURSIVE CollapseSlashes(_)
CollapseSlashes(p) ==
  IF Len(p) < 2 THEN p
  ELSE IF p[1] = "/" /\ p[2] = "/" THEN CollapseSlashes(Tail(p))
       ELSE <<p[1]>> \o CollapseSlashes(Tail(p))

\* A path left with its trailing separators.
KeepTrailingSlash(p) == p

RECURSIVE RStripSlash(_)
RStripSlash(p) ==
  IF p # Empty /\ p[Len(p)] = "/" THEN RStripSlash(SubSeq(p, 1, Len(p) - 1)) ELSE p

canonicalize_url_reference(value) ==
  LET raw == norm_str(value)
      parsed == UrlParse(raw)
      host == (CaseFold(SubSeq(parsed.netloc, 1, FirstOf(parsed.netloc, {":"}, 1) - 1)))
      path0 == IF parsed.path = Empty THEN <<"/">> ELSE parsed.path
      path1 == RStripSlash(CollapseSlashes(path0))
      path == IF path1 = Empty THEN <<"/">> ELSE path1
  IN IF raw = Empty THEN Empty
     ELSE IF parsed.scheme \notin {"http", "https"} THEN Empty
     ELSE host \o path

normalize_crosswalk_ref_by_type(source_type, value) ==
  IF (source_type \in {"canonical_url", "source_ref_url"}) /\ canonicalize_url_reference(value) #
      Empty
  THEN canonicalize_url_reference(value)
  ELSE normalize_crosswalk_ref(value)

(***************************************************************************)
(* The store.  Every relation is a set of rows; uniqueness of a key is a   *)
(* property of what the statements do, not of the representation.          *)
(***************************************************************************)
EmptyDb ==
  [products |-> {}, ingredients |-> {}, crosswalks |-> {}, aliases |-> {},
   snippets |-> {}, vectors |-> {}, social |-> {}, kbrows |-> {}]

\* str(uuid.uuid4()): an identifier no row of the connection's view uses.
IdNames == <<"p1", "p2", "p3", "p4", "p5", "p6">>

NewId(store) ==
  IdNames[CHOOSE i \in 1..Len(IdNames) :
            /\ IdNames[i] \notin ({p.id : p \in store.products})
            /\ \A j \in 1..(i - 1) : IdNames[j] \in ({p.id : p \in store.products})]

(***************************************************************************)
(* Reviewed-CSV ingest: scripts/ingest_product_raw_ingredients_csv.py      *)
(***************************************************************************)
\* key = f"{normalize_key(brand)}||{normalize_key(name)}"
IdentityKey(brand, name) ==
  normalize_key(brand) \o <<"|", "|">> \o normalize_key(name)

\* The key of a stored product taken from its brand and name as stored,
\* without normalize_key: the index this gives misses a row whose brand or
\* name differs from the stored one in case or whitespace.
ProductKeyRaw(p) == p.brand \o <<"|", "|">> \o p.name

ProductKey(p) == IdentityKey(p.brand, p.name)

\* load_product_index: setdefault keeps the first product the SELECT returns
\* for a key; the SELECT has no ORDER BY, so any product of the key may be it.
ProductIndexes(products) ==
  LET keys == {ProductKey(p) : p \in products}
  IN {[k \in keys |-> [id |-> f[k].id, regions |-> f[k].regions]] :
        f \in {g \in [keys -> products] : \A k \in keys : ProductKey(g[k]) = k}}

\* load_ingredient_index: the last row the SELECT returns for a product wins.
IngredientIndexes(ingredients) ==
  LET pids == {r.product_id : r \in ingredients}
  IN {[q \in pids |-> f[q].full_list] :
        f \in {g \in [pids -> ingredients] : \A q \in pids : g[q].product_id = q}}

ZeroStats ==
  [products_inserted |-> 0, regions_updated |-> 0, ingredients_inserted |-> 0,
   ingredients_updated |-> 0, ingredients_unchanged |-> 0,
   raw_snippets_upserted |-> 0, aliases_upserted |-> 0,
   crosswalks_upserted |-> 0, crosswalk_conflicts |-> 0]

\* A counter that is never increased.
BumpNothing(stats, field, n) == stats

\* dict.fromkeys and the seen-set loops: the elements of s whose key (the
\* element of keys at the same place) did not occur earlier, in the order of s.
FirstByKey(s, keys) ==
  LET kept == {i \in 1..Len(s) : \A j \in 1..(i - 1) : keys[j] # keys[i]}
  IN [k \in 1..Cardinality(kept) |->
        s[CHOOSE i \in kept : Cardinality({j \in kept : j <= i}) = k]]

Bump(stats, field, n) == [stats EXCEPT ![field] = @ + n]

\* ingest_rows, lines 564-609: find or create the product of the row.
CsvProductStep(st, row, has) ==
  LET key == IdentityKey(row.brand, row.name)
  IN IF key \notin DOMAIN st.pindex
     THEN LET pid == NewId(st.tx)
              prod == [id |-> pid, brand |-> row.brand, name |-> row.name,
                       url |-> row.source_ref,
                       regions |-> IF has.region THEN (IF row.market # Empty THEN {row.market}
                           ELSE {}) ELSE {}]
          IN [st EXCEPT !.tx.products = @ \cup {prod},
                        !.stats = Bump(@, "products_inserted", 1),
                        !.pindex = (key :> [id |-> pid, regions |-> (IF row.market # Empty THEN
                            {row.market} ELSE {})]) @@ @]
     ELSE LET pid == st.pindex[key].id
              known == st.pindex[key].regions
              merged == known \cup {row.market}
          IN IF has.region /\ row.market # Empty /\ row.market \notin known
             THEN [st EXCEPT
                     !.tx.products =
                        {IF p.id = pid THEN [p EXCEPT !.regions = merged] ELSE p : p \in @},
                     !.pindex = (key :> [id |-> pid, regions |-> merged]) @@ @,
                     !.stats = Bump(@, "regions_updated", 1)]
             ELSE st

\* ingest_rows, lines 611-635: insert, keep or replace the ingredient list.
RowPid(st, row) == st.pindex[IdentityKey(row.brand, row.name)].id

CsvIngredientWrite(st, row, pid) ==
  IF pid \notin DOMAIN st.iindex
  THEN [st EXCEPT
          !.tx.ingredients = @ \cup {[product_id |-> pid, full_list |-> row.ingredient_list]},
          !.iindex = (pid :> row.ingredient_list) @@ @,
          !.stats = Bump(@, "ingredients_inserted", 1)]
  ELSE IF st.iindex[pid] = row.ingredient_list
       THEN [st EXCEPT !.stats = Bump(@, "ingredients_unchanged", 1)]
       ELSE [st EXCEPT
               !.tx.ingredients =
                  {IF r.product_id = pid /\ r.full_list = st.iindex[pid]
                   THEN [r EXCEPT !.full_list = row.ingredient_list] ELSE r : r \in @},
               !.iindex = (pid :> row.ingredient_list) @@ @,
               !.stats = Bump(@, "ingredients_updated", 1)]

CsvIngredientStep(st, row) == CsvIngredientWrite(st, row, RowPid(st, row))

\* upsert_product_aliases: brand, name and full name, ON CONFLICT
\* (product_id, alias_normalized) DO UPDATE.
AliasCandidates(brand, name) ==
  LET b == norm_str(brand)
      n == norm_str(name)
      full == norm_str(b \o <<" ">> \o n)
      all == <<[alias |-> b, kind |-> "brand"], [alias |-> n, kind |-> "name"],
               [alias |-> full, kind |-> "full_name"]>>
  IN SelectSeq(all, LAMBDA a : Len(csv_normalize_alias_text(a.alias)) >= 2)

AliasUpsert(aliases, pid, a) ==
  LET norm == csv_normalize_alias_text(a.alias)
      new == [product_id |-> pid, alias_normalized |-> norm, alias |-> a.alias, kind |-> a.kind]
  IN {r \in aliases : ~(r.product_id = pid /\ r.alias_normalized = norm)} \cup {new}

RECURSIVE AliasUpsertAll(_, _, _)
AliasUpsertAll(aliases, pid, cands) ==
  IF cands = Empty THEN aliases
  ELSE AliasUpsertAll(AliasUpsert(aliases, pid, Head(cands)), pid, Tail(cands))

upsert_product_aliases(st, pid, cands) ==
  [st EXCEPT !.tx.aliases = AliasUpsertAll(@, pid, cands),
             !.stats = Bump(@, "aliases_upserted", Len(cands))]

CsvAliasStep(st, row, flags) ==
  IF flags.upsert_aliases
  THEN upsert_product_aliases(st, RowPid(st, row), AliasCandidates(row.brand, row.name))
  ELSE st

\* upsert_product_crosswalks, lines 396-467: the references a row claims.
CrosswalkRefs(pid, row, include_source_ref_url) ==
  LET ref(ss, st, v, c) == [source_system |-> ss, source_type |-> st, external_ref |-> v,
      confidence |-> c]
      opt(cond, r) == IF cond THEN <<r>> ELSE Empty
  IN <<ref("aurora", "product_id", <<pid>>, 100)>>
     \o opt(row.candidate_id # Empty, ref("harvester", "candidate_id", row.candidate_id, 80))
     \o opt(row.pivota_product_id # Empty, ref("pivota", "product_id", row.pivota_product_id, 95))
     \o opt(row.external_product_id # Empty,
            ref("pivota", "external_product_id", row.external_product_id, 95))
     \o opt(row.external_seed_id # Empty, ref("pivota", "external_seed_id", row.external_seed_id,
         90))
     \o opt(row.canonical_url # Empty, ref("merchant", "canonical_url", row.canonical_url, 90))
     \o opt(include_source_ref_url /\ row.source_ref # Empty,
            ref("merchant", "source_ref_url", row.source_ref, 85))

\* An upsert without the WHERE clause: any product may update the row.
CrosswalkUpdatableAny(existing, pid) == TRUE

\* The rows the statement may update: ON CONFLICT ... DO UPDATE ...
\* WHERE "product_crosswalks"."product_id" = EXCLUDED.product_id
CrosswalkUpdatable(existing, pid) == existing.product_id = pid

\* INSERT INTO "product_crosswalks" ... ON CONFLICT (source_system, source_type,
\* external_ref_normalized) DO UPDATE SET external_ref, confidence, metadata.
\* Gives the relation after the statement and cur.rowcount.
CrosswalkInsert(xw, pid, ref, normalized) ==
  LET hit == {r \in xw : (r.source_system = ref.source_system /\ r.source_type = ref.source_type
      /\ r.external_ref_normalized = normalized)}
      new == [product_id |-> pid, source_system |-> ref.source_system,
              source_type |-> ref.source_type, external_ref |-> ref.external_ref,
              external_ref_normalized |-> normalized, confidence |-> ref.confidence]
  IN IF hit = {}
     THEN [xw |-> xw \cup {new}, rowcount |-> 1]
     ELSE LET upd == {r \in hit : CrosswalkUpdatable(r, pid)}
          IN IF upd = {}
             THEN [xw |-> xw, rowcount |-> 0]
             ELSE [xw |-> (xw \ upd) \cup
                            {[r EXCEPT !.external_ref = ref.external_ref,
                                       !.confidence = ref.confidence] : r \in upd},
                   rowcount |-> 1]

\* upsert_product_crosswalks, lines 469-529: acc is [xw, upserted, conflicts, seen].
RECURSIVE CrosswalkLoop(_, _, _)
CrosswalkLoop(acc, pid, refs) ==
  IF refs = Empty THEN acc
  ELSE LET ref == Head(refs)
           normalized == normalize_crosswalk_ref_by_type(ref.source_type, ref.external_ref)
           dedup_key == <<ref.source_system, ref.source_type, normalized>>
           res == CrosswalkInsert(acc.xw, pid, ref, normalized)
       IN IF normalized = Empty \/ dedup_key \in acc.seen
          THEN CrosswalkLoop(acc, pid, Tail(refs))
          ELSE CrosswalkLoop(
                 [xw |-> res.xw,
                  upserted |-> acc.upserted + (IF res.rowcount = 1 THEN 1 ELSE 0),
                  conflicts |-> acc.conflicts + (IF res.rowcount = 1 THEN 0 ELSE 1),
                  seen |-> acc.seen \cup {dedup_key}],
                 pid, Tail(refs))

upsert_product_crosswalks(xw, pid, row, include_source_ref_url) ==
  CrosswalkLoop([xw |-> xw, upserted |-> 0, conflicts |-> 0, seen |-> {}],
                pid, CrosswalkRefs(pid, row, include_source_ref_url))

CsvCrosswalkApply(st, res) ==
  [st EXCEPT !.tx.crosswalks = res.xw,
             !.stats = [@ EXCEPT !.crosswalks_upserted = @ + res.upserted,
                                 !.crosswalk_conflicts = @ + res.conflicts]]

CsvCrosswalkStep(st, row, flags, has) ==
  IF flags.upsert_crosswalks /\ has.crosswalks
  THEN CsvCrosswalkApply(st, upsert_product_crosswalks(st.tx.crosswalks, RowPid(st, row), row,
                                                       flags.include_source_ref))
  ELSE st

\* ingest_rows, lines 649-676: the raw ingredient text as a KB snippet,
\* ON CONFLICT (product_id, source_sheet, field) DO UPDATE.
CsvSnippetWrite(st, new) ==
  [st EXCEPT
     !.tx.snippets =
        {r \in @ : ~(r.product_id = new.product_id /\ r.source_sheet = new.source_sheet
                     /\ r.field = new.field)} \cup {new},
     !.stats = Bump(@, "raw_snippets_upserted", 1)]

CsvSnippetStep(st, row, has) ==
  IF has.snippets /\ row.raw_ingredient_text # Empty
  THEN CsvSnippetWrite(st, [product_id |-> RowPid(st, row),
                            source_sheet |-> "ingredient_harvester_manual",
                            field |-> "raw_ingredient_text",
                            content |-> row.raw_ingredient_text])
  ELSE st

\* One iteration of the loop of ingest_rows (lines 561-676) on st = [tx,
\* pindex, iindex, stats].
CsvProcessRow(st, row, flags, has) ==
  CsvSnippetStep(
    CsvCrosswalkStep(
      CsvAliasStep(
        CsvIngredientStep(CsvProductStep(st, row, has), row),
        row, flags),
      row, flags, has),
    row, has)

\* An end of run that commits whatever the mode.
CsvEndOfRunAlways(commit, committed, pending) == pending

\* ingest_rows, lines 678-683: what the store holds after the last row.
CsvEndOfRun(commit, committed, pending) == IF commit THEN pending ELSE committed

\* main, lines 743-745: except BaseException: conn.rollback()
CsvOnError(committed, pending) == committed

(***************************************************************************)
(* build_rows of the reviewed-CSV ingest: filters, score and de-duplication *)
(***************************************************************************)
\* clean_raw_ingredient_text on the texts of the model (no URL, no "read
\* more"): NFKC, whitespace collapsed and stripped, a leading "Ingredients"
\* label with its ":" or "-" removed, stripped again.
clean_raw_ingredient_text(text) ==
  LET out == Strip(CollapseWs(Nfkc(text)))
      rest == IF out # Empty /\ out[1] \in {"Ingredients", "ingredients"}
              THEN LStrip(Tail(out)) ELSE Empty
  IN IF rest # Empty /\ rest[1] \in {":", "-"} THEN Strip(Tail(rest)) ELSE out

\* split_ingredient_list: the INCI column split on runs of ";" and "|" when it
\* holds one, else on runs of ","; without an INCI column the cleaned raw text
\* split on all three.  A part is stripped, its blanks collapsed, the
\* characters " .;," stripped from both ends; tokens shorter than 2 and
\* tokens whose normalize_key occurred before are dropped.
split_ingredient_list(inci_list, raw_text) ==
  LET inci == norm_str(inci_list)
      source == IF inci # Empty THEN inci ELSE clean_raw_ingredient_text(raw_text)
      seps == IF inci = Empty THEN {",", ";", "|"}
              ELSE IF \E i \in 1..Len(inci) : inci[i] \in {";", "|"} THEN {";", "|"}
              ELSE {","}
      starts == {i \in 1..Len(source) :
                   source[i] \notin seps /\ (i = 1 \/ source[i - 1] \in seps)}
      stop(i) == CHOOSE j \in i..Len(source) :
                   /\ \A k \in i..j : source[k] \notin seps
                   /\ (j = Len(source) \/ source[j + 1] \in seps)
      pieces == [k \in 1..Cardinality(starts) |->
                   LET i == CHOOSE s \in starts : Cardinality({t \in starts : t <= s}) = k
                   IN Strip(SubSeq(source, i, stop(i)))]
      parts == SelectSeq(pieces, LAMBDA p : p # Empty)
      strip_chars(t) ==
        LET keep == {i \in 1..Len(t) : t[i] \notin {" ", ".", ";", ","}}
        IN IF keep = {} THEN Empty
           ELSE SubSeq(t, CHOOSE i \in keep : \A j \in keep : i <= j,
                          CHOOSE i \in keep : \A j \in keep : j <= i)
      tokens == SelectSeq([k \in 1..Len(parts) |-> strip_chars(CollapseWs(parts[k]))],
                          LAMBDA t : Len(t) >= 2)
  IN FirstByKey(tokens, [k \in 1..Len(tokens) |-> normalize_key(tokens[k])])

\* A row replaces the chosen one of its key on any score that is not lower.
DedupReplacesOnTie(row, prev) == row.score >= prev.score

\* if row.score > prev.score (line 280)
DedupReplaces(row, prev) == row.score > prev.score

\* Every later row of a key counts as a conflict.
SignatureConflictOnCollision(ingredient_signature_by_key, key, ing_sig) ==
  key \in DOMAIN ingredient_signature_by_key

\* prev_sig is not None and prev_sig != ing_sig (lines 270-271)
SignatureConflict(ingredient_signature_by_key, key, ing_sig) ==
  key \in DOMAIN ingredient_signature_by_key /\ ingredient_signature_by_key[key] # ing_sig

\* The IngestRow of a record (lines 227-265): the stripped columns, the
\* ingredient list and the completeness score.  upper is str.upper on the
\* status words of the model.
IngestRowOf(record, row_index) ==
  LET upper(s) == CASE s = "ok" -> "OK"
                    [] s = "needs_source" -> "NEEDS_SOURCE"
                    [] s = "rejected" -> "REJECTED"
                    [] OTHER -> s
  IN [row_index |-> row_index,
      brand |-> norm_str(record.brand),
      name |-> norm_str(record.product_name),
      raw_ingredient_text |-> clean_raw_ingredient_text(norm_str(record.raw_ingredient_text)),
      ingredient_list |-> split_ingredient_list(norm_str(record.inci_list),
                                                norm_str(record.raw_ingredient_text)),
      parse_status |-> upper(record.parse_status),
      review_status |-> upper(record.review_status),
      score |-> (IF upper(record.review_status) = "OK" THEN 100 ELSE 0)
                + (IF upper(record.parse_status) = "OK" THEN 50 ELSE 0)
                + (IF norm_str(record.inci_list) # Empty THEN 25 ELSE 0)
                + (IF Len(split_ingredient_list(norm_str(record.inci_list),
                                                norm_str(record.raw_ingredient_text))) < 30
                   THEN Len(split_ingredient_list(norm_str(record.inci_list),
                                                  norm_str(record.raw_ingredient_text)))
                   ELSE 30)]

\* One iteration of the loop of build_rows (lines 227-284): the four filters
\* in their order; then the conflict counter and the signature of the key
\* ("|".join of the normalised ingredients), and the row is stored, replaces
\* the chosen row of its key or is ignored.
BuildRowsStep(acc, row) ==
  IF row.brand = Empty \/ row.name = Empty
  THEN [acc EXCEPT !.stats = Bump(@, "skipped_missing_brand_or_name", 1)]
  ELSE IF row.review_status \notin {"", "OK"}
  THEN [acc EXCEPT !.stats = Bump(@, "skipped_not_review_ok", 1)]
  ELSE IF row.parse_status = "NEEDS_SOURCE"
  THEN [acc EXCEPT !.stats = Bump(@, "skipped_needs_source", 1)]
  ELSE IF row.ingredient_list = Empty
  THEN [acc EXCEPT !.stats = Bump(@, "skipped_empty_ingredients", 1)]
  ELSE
    LET RECURSIVE Join(_)
        Join(list) == IF Len(list) = 1 THEN normalize_key(list[1])
                      ELSE normalize_key(list[1]) \o <<"|">> \o Join(Tail(list))
        at == {i \in 1..Len(acc.rows) :
                 IdentityKey(acc.rows[i].brand, acc.rows[i].name)
                   = IdentityKey(row.brand, row.name)}
    IN [acc EXCEPT
          !.stats = Bump(IF SignatureConflict(acc.ingredient_signature_by_key,
                                              IdentityKey(row.brand, row.name),
                                              Join(row.ingredient_list))
                         THEN Bump(@, "duplicate_conflicts", 1) ELSE @,
                         IF at = {} THEN "rows_ready"
                         ELSE IF \A i \in at : DedupReplaces(row, acc.rows[i])
                         THEN "dedup_replaced" ELSE "dedup_ignored", 1),
          !.ingredient_signature_by_key =
             (IdentityKey(row.brand, row.name) :> Join(row.ingredient_list)) @@ @,
          !.rows = IF at = {} THEN Append(@, row)
                   ELSE [i \in 1..Len(@) |->
                           IF i \in at /\ DedupReplaces(row, @[i]) THEN row ELSE @[i]]]

\* build_rows on the records of the file: the rows chosen in the order their
\* keys came up, the latest ingredient signature of each key and the
\* statistics.  The value for df is the value for df without its last record
\* followed by one iteration of the loop on that record.
RECURSIVE build_rows(_)
build_rows(df) ==
  IF df = Empty
  THEN [rows |-> Empty, ingredient_signature_by_key |-> << >>,
        stats |-> [input_rows |-> 0, skipped_missing_brand_or_name |-> 0,
                   skipped_not_review_ok |-> 0, skipped_needs_source |-> 0,
                   skipped_empty_ingredients |-> 0, dedup_replaced |-> 0,
                   dedup_ignored |-> 0, duplicate_conflicts |-> 0, rows_ready |-> 0]]
  ELSE BuildRowsStep([build_rows(SubSeq(df, 1, Len(df) - 1)) EXCEPT
                        !.stats.input_rows = Len(df)],
                     IngestRowOf(df[Len(df)], Len(df) - 1))

\* The most records of one input file of build_rows.
MaxBuildRows == 3

(***************************************************************************)
(* Inputs of the reviewed-CSV ingest: rows as build_rows delivers them     *)
(* (brand and name stripped and non-empty, one row per identity key).      *)
(***************************************************************************)
RowA1 ==
  [brand |-> <<"A", " ", "b">>, name |-> <<"x">>, market |-> <<"U">>,
   candidate_id |-> <<"c", "1">>, canonical_url |-> (<<"https", ":", "/", "/", "B", ".", "c",
       "/", "p", "/", "?", "u">>), source_ref |-> (<<"https", ":", "/", "/", "b", ".", "c", "/",
       "p">>),
   pivota_product_id |-> Empty, external_product_id |-> Empty, external_seed_id |-> Empty,
   raw_ingredient_text |-> <<"w", ",", "g">>, ingredient_list |-> << <<"w">>, <<"g">> >>]

\* The same identity as RowA1 (case and whitespace differ), other content.
RowA2 ==
  [brand |-> <<"a", "TAB", " ", "B">>, name |-> <<"X">>, market |-> <<"C">>,
   candidate_id |-> <<"C", "1">>, canonical_url |-> (<<"ftp", ":", "/", "/", "b", ".", "c">>),
       source_ref |-> Empty,
   pivota_product_id |-> <<"P", "9">>, external_product_id |-> <<"x", "TAB", "9">>,
   external_seed_id |-> <<"p", "9">>,
   raw_ingredient_text |-> Empty, ingredient_list |-> << <<"w">> >>]

\* Another product that claims references of RowA1.
RowB1 ==
  [brand |-> <<"b">>, name |-> <<"x">>, market |-> Empty,
   candidate_id |-> <<"c", "1">>, canonical_url |-> (<<"https", ":", "/", "/", "b", ".", "c",
       "/", "p">>), source_ref |-> (<<"https", ":", "/", "/", "B", ".", "c", "/", "p", "/", "?",
       "u">>),
   pivota_product_id |-> Empty, external_product_id |-> Empty, external_seed_id |-> Empty,
   raw_ingredient_text |-> <<"w">>, ingredient_list |-> << <<"w">> >>]

MaxCsvRows == 2

CsvInputs ==
  {rows \in UNION {[1..n -> ({RowA1, RowA2, RowB1})] : n \in 1..MaxCsvRows} :
     \A i, j \in 1..Len(rows) : i # j => (IdentityKey((rows[i]).brand, (rows[i]).name)) #
         (IdentityKey((rows[j]).brand, (rows[j]).name))}

Flags(commit, aliases, crosswalks, source_ref) ==
  [commit |-> commit, upsert_aliases |-> aliases, upsert_crosswalks |-> crosswalks,
   include_source_ref |-> source_ref]

\* ensure_db_prerequisites: what the schema of the store provides.
Schema(region, snippets, crosswalks) ==
  [region |-> region, snippets |-> snippets, crosswalks |-> crosswalks]

Off == [pc |-> "off"]

CsvInit ==
  /\ prog = "csv"
  /\ fn = Off
  /\ db = EmptyDb
  /\ tx = EmptyDb
  /\ kb = Off
  /\ wk = Off
  /\ \E has \in ({Schema(TRUE, TRUE, TRUE), Schema(TRUE, FALSE, FALSE), Schema(FALSE, TRUE,
         TRUE)}) :
       csv = [pc |-> "idle", rows |-> Empty, flags |-> ([commit |-> FALSE, upsert_aliases |->
           FALSE, upsert_crosswalks |-> FALSE, include_source_ref |-> FALSE]), has |-> has, idx
           |-> 0,
              pindex |-> << >>, iindex |-> << >>, stats |-> ZeroStats,
              start |-> EmptyDb, after |-> EmptyDb, lastPid |-> "", repeat |-> FALSE,
              runs |-> 0]

\* main: connect, then ingest_rows up to its loop (lines 541-560).  The product
\* index reads products.region_availability, which raises when the column is
\* missing; main rolls back and the run ends.
CsvStart(rows, flags) ==
  /\ prog = "csv"
  /\ csv.pc \in {"idle", "done", "aborted"}
  /\ csv.runs < MaxCsvRuns
  /\ db' = db
  /\ UNCHANGED <<prog, fn, kb, wk>>
  /\ LET repeat == csv.pc = "done" /\ csv.flags.commit /\ rows = csv.rows /\ flags = csv.flags
         base == [csv EXCEPT !.rows = rows, !.flags = flags, !.idx = 1, !.stats = ZeroStats,
                             !.start = db, !.after = db, !.lastPid = "", !.repeat = repeat,
                             !.runs = @ + 1, !.pindex = << >>, !.iindex = << >>]
     IN IF ~csv.has.region
        THEN /\ tx' = CsvOnError(db, db)
             /\ csv' = [base EXCEPT !.pc = "aborted", !.idx = 0]
        ELSE /\ tx' = db
             /\ \E pindex \in ProductIndexes(db.products) :
                \E iindex \in IngredientIndexes(db.ingredients) :
                  csv' = [base EXCEPT !.pc = "running", !.pindex = pindex, !.iindex = iindex]

CsvRowEffect(st, pid, last) ==
  /\ db' = IF last THEN CsvEndOfRun(csv.flags.commit, db, st.tx) ELSE db
  /\ tx' = IF last THEN db' ELSE st.tx
  /\ csv' = [csv EXCEPT !.pindex = st.pindex, !.iindex = st.iindex, !.stats = st.stats,
                        !.after = st.tx, !.lastPid = pid,
                        !.pc = IF last THEN "done" ELSE @,
                        !.idx = IF last THEN @ ELSE @ + 1]

CsvRowResult(st, row, last) == CsvRowEffect(st, RowPid(st, row), last)

\* One iteration of the loop of ingest_rows; after the last row the function
\* commits or rolls back (lines 678-683) and main closes the connection.
CsvRow ==
  /\ prog = "csv"
  /\ csv.pc = "running"
  /\ \E i \in 1..Len(IdNames) : IdNames[i] \notin {p.id : p \in tx.products}
  /\ UNCHANGED <<prog, fn, kb, wk>>
  /\ CsvRowResult(CsvProcessRow([tx |-> tx, pindex |-> csv.pindex, iindex |-> csv.iindex,
                                 stats |-> csv.stats],
                                csv.rows[csv.idx], csv.flags, csv.has),
                  csv.rows[csv.idx], csv.idx = Len(csv.rows))

\* A statement of the current row raises (a database error): ingest_rows is
\* left by the exception and main rolls the connection back (lines 743-747).
CsvRowRaises ==
  /\ prog = "csv"
  /\ csv.pc = "running"
  /\ UNCHANGED <<prog, fn, kb, wk>>
  /\ db' = CsvOnError(db, tx)
  /\ tx' = db'
  /\ csv' = [csv EXCEPT !.pc = "aborted"]

CsvNext ==
  \/ \E rows \in CsvInputs, flags \in ({Flags(FALSE, FALSE, TRUE, FALSE), Flags(TRUE, FALSE,
         FALSE, FALSE), Flags(TRUE, TRUE, TRUE, FALSE), Flags(TRUE, FALSE, TRUE, TRUE)}) :
         CsvStart(rows, flags)
  \/ CsvRow
  \/ CsvRowRaises

SpecCsv == CsvInit /\ [][CsvNext]_vars

(***************************************************************************)
(* Ingredient-KB ingester: scripts/ingest_skincare_ingredients_kb.py       *)
(*                                                                         *)
(* A cell is NULL, a text or an integer; an integer carries its decimal    *)
(* text (no leading zeros), so that cells of every kind compare.           *)
(***************************************************************************)
NullCell == [t |-> "null", v |-> Empty]

StrCell(s) == [t |-> "str", v |-> s]

IntCell(s) == [t |-> "int", v |-> s]

IsDigitText(s) == s # Empty /\ \A i \in 1..Len(s) : s[i] \in ({"0", "1", "7"})

\* The texts int() accepts: an optional sign and decimal digits.
IsIntText(s) ==
  IF s # Empty /\ s[1] \in {"-", "+"} THEN IsDigitText(Tail(s)) ELSE IsDigitText(s)

RECURSIVE DropZeros(_)
DropZeros(s) == IF s # Empty /\ s[1] = "0" THEN DropZeros(Tail(s)) ELSE s

\* The decimal text of int(s).
IntCanon(s) ==
  LET signed == s[1] \in {"-", "+"}
      digits == DropZeros(IF signed THEN Tail(s) ELSE s)
  IN IF digits = Empty THEN <<"0">>
     ELSE IF s[1] = "-" THEN <<"-">> \o digits ELSE digits

\* normalize_cell on a cell as read or as normalised before.
normalize_cell(c) ==
  IF c.t = "null" THEN NullCell
  ELSE IF Strip(c.v) = Empty \/ CaseFold(Strip(c.v)) \in ({<<"n", "a", "n">>, <<"n", "u", "l",
      "l">>, <<"n", "o", "n", "e">>}) THEN NullCell
       ELSE StrCell(Strip(c.v))

normalize_int(c) ==
  IF normalize_cell(c).t = "null" THEN NullCell
  ELSE IF IsIntText(normalize_cell(c).v) THEN IntCell(IntCanon(normalize_cell(c).v))
       ELSE NullCell

\* TABLE_SPECS: the tables of the model, in the order main walks them.
KbTables == <<"ingredients_master", "ingredient_products">>

KbPk(table) == IF table = "ingredients_master" THEN "ingredient_id" ELSE "product_id"

KbColumns(table) ==
  IF table = "ingredients_master" THEN {"ingredient_id", "inci_name"}
  ELSE {"product_id", "ingredient_id", "product_rank"}

\* No coercion: the cells stay the texts normalize_cell made of them.
KbCoerceNone(table, row) == row

\* main, lines 670-678: the type coercions of a table.
KbCoerce(table, row) ==
  IF table = "ingredient_products"
  THEN [row EXCEPT !.product_rank = normalize_int(@)]
  ELSE row

KbLoad(table, file) == [i \in 1..Len(file) |-> KbCoerce(table, ([c \in DOMAIN (file[i]) |->
    normalize_cell(StrCell((file[i])[c]))]))]

\* validate_primary_key: no empty and no repeated primary key.
validate_primary_key(rows, pk) ==
  /\ \A i \in 1..Len(rows) : rows[i][pk].t # "null"
  /\ \A i, j \in 1..Len(rows) : i # j => rows[i][pk] # rows[j][pk]

\* validate_refs with required = True.
validate_refs(rows, ingredient_ids) ==
  \A i \in 1..Len(rows) : rows[i].ingredient_id \in ingredient_ids

\* What a column of the store holds once a cell is written to it: the columns
\* the ingester coerces to int are integer columns, the others are text.
KbStored(col, c) ==
  IF col = "product_rank"
  THEN CASE c.t = "null" -> NullCell
         [] c.t = "int" -> c
         [] c.t = "str" /\ IsIntText(c.v) -> IntCell(IntCanon(c.v))
  ELSE IF c.t = "null" THEN NullCell ELSE StrCell(c.v)

\* rows_equal, lines 451-465, for one column: a from the store, b incoming.
CellsEqual(a, b) ==
  LET b1 == IF a.t = "int" /\ b.t = "str" /\ IsDigitText(b.v) THEN IntCell(IntCanon(b.v)) ELSE b
      a1 == IF b1.t = "int" /\ a.t = "str" /\ IsDigitText(a.v) THEN IntCell(IntCanon(a.v)) ELSE a
      a2 == IF a1 = StrCell(Empty) /\ b1.t = "null" THEN NullCell ELSE a1
      b2 == IF b1 = StrCell(Empty) /\ a2.t = "null" THEN NullCell ELSE b1
  IN a2 = b2

rows_equal(existing, incoming, columns) ==
  \A c \in columns \ {"created_at", "updated_at"} : CellsEqual(existing[c], incoming[c])

\* fetch_existing_row: the rows of the table with this primary key.
fetch_existing_row(kbrows, table, pk_value) ==
  {r \in kbrows : r.table = table /\ r.row[KbPk(table)] = pk_value}

\* upsert_row: INSERT ... ON CONFLICT (pk) DO UPDATE SET every other column.
upsert_row(kbrows, table, incoming) ==
  (kbrows \ fetch_existing_row(kbrows, table, incoming[KbPk(table)]))
    \cup {[table |-> table, row |-> [c \in KbColumns(table) |-> KbStored(c, incoming[c])]]}

(***************************************************************************)
(* Inputs and runs of the ingredient-KB ingester                           *)
(***************************************************************************)
MaxKbRows == 2

SeqsUpTo(S, n) == UNION {[1..k -> S] : k \in 0..n}

\* main, lines 644-682: load and validate the files; FALSE where main dies.
KbValid(input) ==
  /\ validate_primary_key(KbLoad("ingredients_master", input.master), "ingredient_id")
  /\ validate_primary_key(KbLoad("ingredient_products", input.products), "product_id")
  /\ validate_refs(KbLoad("ingredient_products", input.products),
                   {r.ingredient_id : r \in {KbLoad("ingredients_master", input.master)[i] :
                                               i \in 1..Len(input.master)}})

\* table_rows_map in the order of TABLE_SPECS.
KbRecords(input) ==
  ([i \in 1..Len((KbLoad("ingredients_master", input.master))) |-> [table |->
      "ingredients_master", row |-> (KbLoad("ingredients_master", input.master))[i]]])
    \o ([i \in 1..Len((KbLoad("ingredient_products", input.products))) |-> [table |->
        "ingredient_products", row |-> (KbLoad("ingredient_products", input.products))[i]]])

ZeroSummary ==
  [t \in {KbTables[i] : i \in 1..Len(KbTables)} |-> ([inserted |-> 0, updated |-> 0, skipped |->
      0, conflict |-> 0, failed |-> 0])]

\* main, lines 701-744: what happens to a record whose statements succeed.
KbOutcome(existing, rec, flags) ==
  IF existing = {} THEN "inserted"
  ELSE IF rows_equal((CHOOSE r \in existing : TRUE).row, rec.row, KbColumns(rec.table))
       THEN "skipped"
       ELSE IF flags.commit /\ flags.allow_overwrite THEN "updated" ELSE "conflict"

\* The counters a record adds to; a failed upsert counts "failed" (lines 715-718, 741-744).
KbCounted(outcome, failed) ==
  IF outcome = "updated"
  THEN <<"conflict", IF failed THEN "failed" ELSE "updated">>
  ELSE IF failed THEN <<"failed">> ELSE <<outcome>>

RECURSIVE KbCount(_, _)
KbCount(counts, statuses) ==
  IF statuses = Empty THEN counts
  ELSE KbCount([counts EXCEPT ![Head(statuses)] = @ + 1], Tail(statuses))

\* The bookkeeping of one record: summary, log, conflicts.
KbNote(k, rec, outcome, failed) ==
  [k EXCEPT !.summary[rec.table] = KbCount(@, KbCounted(outcome, failed)),
            !.log = @ \o ([i \in 1..Len(((IF outcome = "inserted" /\ ~k.flags.commit THEN Empty
                ELSE KbCounted(outcome, failed)))) |-> [table |-> rec.table, primary_key |->
                rec.row[KbPk(rec.table)], status |-> ((IF outcome = "inserted" /\ ~k.flags.commit
                THEN Empty ELSE KbCounted(outcome, failed)))[i]]]),
            !.conflicts = IF outcome \in {"conflict", "updated"}
                          THEN Append(@, [table |-> rec.table, pk |-> rec.row[KbPk(rec.table)]])
                          ELSE @,
            !.seen = @ + 1]

\* The conflict check is left out: a commit run always commits.
KbEndOfRunAnyway(flags, conflicts, committed, pending) ==
  IF flags.commit THEN pending ELSE committed

\* main, lines 748-761: what the store holds when the loop has ended.
KbEndOfRun(flags, conflicts, committed, pending) ==
  IF flags.commit /\ ~(conflicts # Empty /\ ~flags.allow_overwrite) THEN pending ELSE committed

KbInit ==
  /\ prog = "kb"
  /\ fn = Off
  /\ db = EmptyDb
  /\ tx = EmptyDb
  /\ csv = Off
  /\ wk = Off
  /\ \E tables \in BOOLEAN :
       kb = [pc |-> "idle", tables |-> tables, input |-> [master |-> Empty, products |-> Empty],
             flags |-> ([commit |-> FALSE, allow_overwrite |-> FALSE]), records |-> Empty, idx
                 |-> 0,
             summary |-> ZeroSummary, log |-> Empty, conflicts |-> Empty, seen |-> 0,
             upserts |-> 0, start |-> EmptyDb, repeat |-> FALSE, runs |-> 0]

KbBegin(k, input, flags, repeat, ok) ==
  [k EXCEPT !.pc = IF ok THEN "running" ELSE "aborted",
            !.input = input, !.flags = flags,
            !.records = IF ok THEN KbRecords(input) ELSE Empty,
            !.idx = IF ok THEN 1 ELSE 0,
            !.summary = ZeroSummary, !.log = Empty, !.conflicts = Empty, !.seen = 0,
            !.upserts = 0, !.start = db, !.repeat = repeat, !.runs = @ + 1]

\* main up to the loop over the tables (lines 586-687): the self-check dies in
\* commit mode when a table is missing, the validation dies on a bad file.
KbStart(input, flags) ==
  /\ prog = "kb"
  /\ kb.pc \in {"idle", "done", "aborted"}
  /\ kb.runs < MaxKbRuns
  /\ UNCHANGED <<prog, fn, db, csv, wk>>
  /\ tx' = db
  /\ kb' = KbBegin(kb, input, flags,
                   kb.pc = "done" /\ kb.flags.commit /\ input = kb.input /\ flags = kb.flags,
                   ~(~kb.tables /\ flags.commit) /\ KbValid(input))

KbRecordDone(rec, outcome) ==
  /\ tx' = IF (kb.flags.commit /\ outcome \in {"inserted", "updated"})
           THEN [tx EXCEPT !.kbrows = upsert_row(@, rec.table, rec.row)]
           ELSE tx
  /\ kb' = [KbNote(kb, rec, outcome, FALSE) EXCEPT
              !.idx = @ + 1,
              !.upserts = IF (kb.flags.commit /\ outcome \in {"inserted", "updated"}) THEN @ + 1
                  ELSE @]

\* One record of the loop, lines 701-744, every statement succeeding.
KbRecord ==
  /\ prog = "kb"
  /\ kb.pc = "running"
  /\ kb.idx <= Len(kb.records)
  /\ UNCHANGED <<prog, fn, db, csv, wk>>
  /\ KbRecordDone(kb.records[kb.idx],
                  KbOutcome((IF kb.tables THEN fetch_existing_row(tx.kbrows,
                      (kb.records[kb.idx]).table,
                      (kb.records[kb.idx]).row[KbPk((kb.records[kb.idx]).table)]) ELSE {}),
                      kb.records[kb.idx], kb.flags))

KbRecordFailed(rec, outcome) ==
  /\ (kb.flags.commit /\ outcome \in {"inserted", "updated"})
  /\ kb' = [KbNote(kb, rec, outcome, TRUE) EXCEPT !.pc = "aborted", !.upserts = @ + 1]

\* The upsert of the record raises (lines 715-718, 741-744): the record is
\* counted and logged as failed and die() ends the run; closing the
\* connection discards the pending writes.
KbRecordFails ==
  /\ prog = "kb"
  /\ kb.pc = "running"
  /\ kb.idx <= Len(kb.records)
  /\ UNCHANGED <<prog, fn, db, csv, wk>>
  /\ tx' = db
  /\ KbRecordFailed(kb.records[kb.idx],
                    KbOutcome((IF kb.tables THEN fetch_existing_row(tx.kbrows,
                        (kb.records[kb.idx]).table,
                        (kb.records[kb.idx]).row[KbPk((kb.records[kb.idx]).table)]) ELSE {}),
                        kb.records[kb.idx], kb.flags))

\* Another statement of the loop raises (the SELECT of fetch_existing_row):
\* nothing catches it and the finally clause closes the connection.
KbRaises ==
  /\ prog = "kb"
  /\ kb.pc = "running"
  /\ kb.idx <= Len(kb.records)
  /\ UNCHANGED <<prog, fn, db, csv, wk>>
  /\ tx' = db
  /\ kb' = [kb EXCEPT !.pc = "aborted"]

\* After the last table, lines 748-761: rollback and die on conflicts, else
\* commit or roll back; then the connection is closed.
KbFinish ==
  /\ prog = "kb"
  /\ kb.pc = "running"
  /\ kb.idx > Len(kb.records)
  /\ UNCHANGED <<prog, fn, csv, wk>>
  /\ db' = KbEndOfRun(kb.flags, kb.conflicts, db, tx)
  /\ tx' = db'
  /\ kb' = [kb EXCEPT !.pc = (IF kb.conflicts # Empty /\ kb.flags.commit /\
         ~kb.flags.allow_overwrite THEN "aborted" ELSE "done")]

KbNext ==
  \/ \E input \in ({f \in [master : SeqsUpTo(({([ingredient_id |-> <<"i1">>, inci_name |->
         <<"a">>]), ([ingredient_id |-> <<" ", "i1">>, inci_name |-> <<"N", "a", "N">>])}),
         MaxKbRows), products : SeqsUpTo(({([product_id |-> <<"q1">>, ingredient_id |-> <<"i1">>,
         product_rank |-> <<"+", "0", "7">>])}), MaxKbRows)] : Len(f.master) + Len(f.products)
         \in 1..MaxKbRows}), flags \in ({([commit |-> c, allow_overwrite |-> a]) : c, a \in
         BOOLEAN}) : KbStart(input, flags)
  \/ KbRecord
  \/ KbRecordFails
  \/ KbRaises
  \/ KbFinish

SpecKb == KbInit /\ [][KbNext]_vars

(***************************************************************************)
(* Vectorization worker: worker/ingest.py, run with a database,            *)
(* --no-embedding and --social-provider=llm, so that the annotation call   *)
(* get_vectors_from_llm is the one service call of a record.               *)
(***************************************************************************)
\* NFKD and the removal of combining marks, per character.
NfkdBase(c) ==
  IF c = "E'" THEN "E" ELSE IF c = "e'" THEN "e" ELSE IF c = "A_fw" THEN "A" ELSE c

KeepAlnum(s) ==
  SelectSeq(s, LAMBDA c : c \in {"a", "b", "c", "e", "n", "p", "x", "y", "0", "1", "7"})

normalize_match_key(text) ==
  KeepAlnum(CaseFold([i \in 1..Len(text) |-> NfkdBase(text[i])]))

\* The worker's normalize_alias_text: NFKC, lower, keep [0-9a-z] (and CJK).
wk_normalize_alias_text(text) == KeepAlnum(CaseFold(Nfkc(text)))

RetryTries == 3

\* _retry: fn is tried until it returns, RetryTries times at most; failures
\* is the number of tries that raise before one would return.  TRUE when a
\* try returns, FALSE when the last error is raised.
Retry(failures) == failures < RetryTries

\* parse_ingredients_list: a text is the sequence of its comma-separated items,
\* stripped; the empty ones are dropped.
parse_ingredients_list(text) == SelectSeq(text, LAMBDA t : t # "")

\* n in token: the terms of the rule lists that occur in each ingredient name
\* of the model, lower-cased (water and niacinamide hold none).
TermsIn(token) ==
  CASE token = "retinol" -> {"retinol"}
    [] token = "salicylic acid" -> {"salicylic acid"}
    [] token = "glycolic acid" -> {"glycolic acid"}
    [] token = "mandelic acid" -> {"mandelic acid"}
    [] token = "benzoyl peroxide" -> {"benzoyl peroxide"}
    [] token = "alcohol denat." -> {"alcohol denat", "alcohol denat."}
    [] token = "parfum" -> {"parfum"}
    [] OTHER -> {}

strong_acid_terms ==
  {"salicylic acid", "capryloyl salicylic acid", "betaine salicylate", "glycolic acid",
   "lactic acid"}

mild_acid_terms == {"azelaic acid", "mandelic acid", "gluconolactone", "lactobionic acid", "pha"}

\* The summary rule without benzoyl peroxide.
high_irritation_without_peroxide(has_retinoid, has_strong_acid, has_benzoyl_peroxide) ==
  has_retinoid \/ has_strong_acid

\* if has_retinoid or has_strong_acid or has_benzoyl_peroxide: high_irritation
high_irritation(has_retinoid, has_strong_acid, has_benzoyl_peroxide) ==
  has_retinoid \/ has_strong_acid \/ has_benzoyl_peroxide

\* infer_risk_flags_from_ingredients: the flags of the rules that fire, in the
\* stable order of the code.  Alcohol is looked for in the first five items,
\* strong acids in the first ten, everything else in all items.
infer_risk_flags_from_ingredients(text) ==
  LET lower(t) == IF t = "Glycolic Acid" THEN "glycolic acid" ELSE t
      parsed == parse_ingredients_list(text)
      items == [i \in 1..Len(parsed) |-> lower(parsed[i])]
      top(n) == SubSeq(items, 1, IF Len(items) < n THEN Len(items) ELSE n)
      has_any(haystack, needles) ==
        \E i \in 1..Len(haystack) : TermsIn(haystack[i]) \cap needles # {}
      has_alcohol_high ==
        has_any(top(5), {"alcohol denat", "alcohol denat.", "denatured alcohol", "sd alcohol",
                         "ethyl alcohol"})
      has_retinoid ==
        has_any(items, {"retinol", "retinal", "retinaldehyde", "tretinoin", "adapalene",
                        "tazarotene", "retinoate", "hydroxypinacolone retinoate"})
      has_strong_acid == has_any(top(10), strong_acid_terms)
      has_mild_acid == has_any(items, mild_acid_terms)
      has_benzoyl_peroxide == has_any(items, {"benzoyl peroxide"})
      has_polysorbate == has_any(items, {"polysorbate"})
      has_fragrance ==
        \/ has_any(items, {"fragrance", "parfum", "perfume"})
        \/ has_any(items, {"limonene", "linalool", "citral", "geraniol", "eugenol", "coumarin",
                           "farnesol", "benzyl benzoate", "benzyl salicylate"})
      has_mint == has_any(items, {"menthol", "peppermint", "mentha", "camphor", "eucalyptus"})
      flags ==
        (IF has_alcohol_high THEN {"alcohol_high"} ELSE {})
        \cup (IF has_polysorbate THEN {"fungal_acne"} ELSE {})
        \cup (IF has_fragrance THEN {"fragrance"} ELSE {})
        \cup (IF has_mint THEN {"mint"} ELSE {})
        \cup (IF has_retinoid THEN {"retinol_high"} ELSE {})
        \cup (IF has_benzoyl_peroxide THEN {"benzoyl_peroxide"} ELSE {})
        \cup (IF has_strong_acid THEN {"strong_acid"} ELSE {})
        \cup (IF has_mild_acid /\ ~has_strong_acid THEN {"mild_acid"} ELSE {})
        \cup (IF high_irritation(has_retinoid, has_strong_acid, has_benzoyl_peroxide)
              THEN {"high_irritation"} ELSE {})
      order == <<"alcohol_high", "strong_acid", "mild_acid", "retinol_high", "benzoyl_peroxide",
                 "high_irritation", "fragrance", "mint", "fungal_acne">>
  IN SelectSeq(order, LAMBDA f : f \in flags)

\* cleaned: the hinted flags the loop keeps; gated is the tuple of flags that
\* must be backed by deterministic evidence (line 845).  _norm_flag on the
\* hints of the model: NFKC, strip, lower, runs of blanks and hyphens to "_",
\* every other character outside [a-z0-9_] removed; then synonym_map.get(f, f).
CleanedFlags(llm_flags, det_set, gated) ==
  LET NormFlag(flag) ==
        CASE flag = "Retinol" -> "retinol"
          [] flag = "High Irritation" -> "high_irritation"
          [] flag = "strong-acid" -> "strong_acid"
          [] flag = "!" -> ""
          [] OTHER -> flag
      SynonymOf(f) ==
        CASE f \in {"alcohol", "high_alcohol"} -> "alcohol_high"
          [] f \in {"acid", "aha", "bha"} -> "strong_acid"
          [] f \in {"retinol", "retinoid"} -> "retinol_high"
          [] OTHER -> f
      allowlist == {"alcohol_high", "strong_acid", "mild_acid", "retinol_high",
                    "benzoyl_peroxide", "high_irritation", "fungal_acne", "fragrance", "mint"}
      mapped == [i \in 1..Len(llm_flags) |-> SynonymOf(NormFlag(llm_flags[i]))]
  IN SelectSeq(mapped, LAMBDA f : f # "" /\ f \in allowlist /\ (f \in gated => f \in det_set))

\* postprocess_risk_flags with the evidence gate on two flags only.
postprocess_risk_flags_ungated(llm_flags, text) ==
  LET deterministic == infer_risk_flags_from_ingredients(text)
      det_set == {deterministic[i] : i \in 1..Len(deterministic)}
      merged == deterministic \o CleanedFlags(llm_flags, det_set, {"mild_acid",
          "benzoyl_peroxide"})
  IN FirstByKey(merged, merged)

\* postprocess_risk_flags: a hinted flag is kept only when it is in the
\* allow-list and the deterministic pass derived it too; the result is
\* list(dict.fromkeys(deterministic + cleaned)).
postprocess_risk_flags(llm_flags, text) ==
  LET deterministic == infer_risk_flags_from_ingredients(text)
      det_set == {deterministic[i] : i \in 1..Len(deterministic)}
      cleaned ==
        CleanedFlags(llm_flags, det_set,
                     {"high_irritation", "strong_acid", "mild_acid", "retinol_high",
                      "benzoyl_peroxide", "alcohol_high", "fungal_acne", "fragrance", "mint"})
  IN FirstByKey(deterministic \o cleaned, deterministic \o cleaned)

\* infer_key_actives_from_ingredients on the same names, no expert key actives.
infer_key_actives_from_ingredients(items) ==
  LET has(x) == \E i \in 1..Len(items) : items[i] = x
  IN (IF has("niacinamide") THEN <<"Niacinamide">> ELSE Empty)
     \o (IF has("retinol") THEN <<"Retinoid">> ELSE Empty)

\* key = (normalize_match_key(brand), normalize_match_key(name))
MatchKey(brand, name) == <<normalize_match_key(brand), normalize_match_key(name)>>

\* find_product_id: SELECT id ... WHERE brand = %s AND name = %s LIMIT 1.
find_product_id(products, brand, name) ==
  {p.id : p \in {q \in products : q.brand = brand /\ q.name = name}}

\* load_all_product_ids_normalized: the first product the SELECT returns for a
\* key stays (setdefault); the SELECT has no ORDER BY.
load_all_product_ids_normalized(products) ==
  LET keys == {MatchKey(p.brand, p.name) : p \in products}
  IN {[k \in keys |-> f[k].id] :
        f \in {g \in [keys -> products] : \A k \in keys : MatchKey(g[k].brand, g[k].name) = k}}

\* find_product_id_loose: the results [id, cache] it can give; id "" is None.
find_product_id_loose(products, cache, brand, name) ==
  IF find_product_id(products, brand, name) # {}
  THEN {[id |-> i, cache |-> cache] : i \in find_product_id(products, brand, name)}
  ELSE {[id |-> IF MatchKey(brand, name) \in DOMAIN c.map THEN c.map[MatchKey(brand, name)] ELSE
      "",
         cache |-> c] :
          c \in IF cache.loaded THEN {cache}
                ELSE {[loaded |-> TRUE, map |-> m] : m \in
                    load_all_product_ids_normalized(products)}}

\* " | ".join(labels)
RECURSIVE JoinLabels(_)
JoinLabels(labels) ==
  IF Len(labels) <= 1 THEN labels
  ELSE <<Head(labels), " ", "|", " ">> \o JoinLabels(Tail(labels))

\* The statements of ingest_one in program order: upsert_product and the
\* deletes of the overwrite path come before the try block (lines 2104-2110),
\* the skip path has no try block (lines 2061-2071).
WkOps(exists, overwrite) ==
  LET step(op, try) == [op |-> op, try |-> try]
      snips(try) == <<step("expert_knowledge", try), step("key_actives", try),
                   step("sensitivity_flags", try)>>
  IN IF exists /\ ~overwrite THEN snips(FALSE)
     ELSE (IF exists
           THEN <<step("upsert_product", FALSE), step("delete_vectors", FALSE),
                  step("delete_ingredients", FALSE), step("delete_social_stats", FALSE)>>
           ELSE <<step("insert_product", TRUE)>>)
          \o <<step("upsert_default_aliases", TRUE), step("insert_vectors", TRUE),
               step("insert_ingredients", TRUE), step("insert_social_stats", TRUE)>>
          \o snips(TRUE)

\* Whether the step sends a statement to the database for this SKU.
WkExecutes(op, sku) ==
  CASE op = "expert_knowledge" -> Len(Strip(sku.expert_knowledge)) >= 2
    [] op = "key_actives" ->
         sku.ingredients # Empty /\ infer_key_actives_from_ingredients(sku.ingredients) # Empty
    [] op = "sensitivity_flags" ->
         sku.ingredients # Empty /\ infer_risk_flags_from_ingredients(sku.ingredients) # Empty
    [] OTHER -> TRUE

\* upsert_kb_snippet: ON CONFLICT (product_id, source_sheet, field) DO UPDATE.
upsert_kb_snippet(snippets, new) ==
  {r \in snippets : ~(r.product_id = new.product_id /\ r.source_sheet = new.source_sheet
                      /\ r.field = new.field)} \cup {new}

Snippet(pid, sheet, field, content) ==
  [product_id |-> pid, source_sheet |-> sheet, field |-> field, content |-> content]

\* upsert_default_aliases_for_product: brand, name and full name, each
\* through upsert_product_alias (raw and normalised alias of 2 or more).
WkAliasRows(pid, brand, name) ==
  {[product_id |-> pid, alias_normalized |-> wk_normalize_alias_text(a.alias),
    alias |-> a.alias, kind |-> a.kind] :
     a \in {c \in {[alias |-> Strip(brand), kind |-> "brand"],
                   [alias |-> Strip(name), kind |-> "name"],
                   [alias |-> Strip(brand) \o <<" ">> \o Strip(name), kind |-> "full_name"]} :
              Len(c.alias) >= 2 /\ Len(wk_normalize_alias_text(c.alias)) >= 2}}

\* One statement of ingest_one on the pending state of the connection.
WkApply(store, op, sku, pid, vec) ==
  CASE op \in {"upsert_product", "insert_product"} ->
         [store EXCEPT !.products = {p \in @ : p.id # pid} \cup
            {[id |-> pid, brand |-> sku.brand, name |-> sku.name, url |-> Empty, regions |-> {}]}]
    [] op = "delete_vectors" -> [store EXCEPT !.vectors = {r \in @ : r.product_id # pid}]
    [] op = "delete_ingredients" -> [store EXCEPT !.ingredients = {r \in @ : r.product_id # pid}]
    [] op = "delete_social_stats" -> [store EXCEPT !.social = {r \in @ : r.product_id # pid}]
    [] op = "upsert_default_aliases" ->
         [store EXCEPT !.aliases =
            {r \in @ : \A n \in WkAliasRows(pid, sku.brand, sku.name) :
                          ~(r.product_id = n.product_id /\ r.alias_normalized =
                              n.alias_normalized)}
              \cup WkAliasRows(pid, sku.brand, sku.name)]
    [] op = "insert_vectors" ->
         [store EXCEPT !.vectors =
            @ \cup {[product_id |-> pid,
                     risk_flags |-> postprocess_risk_flags(vec.risk_flags, sku.ingredients)]}]
    [] op = "insert_ingredients" ->
         [store EXCEPT !.ingredients = @ \cup {[product_id |-> pid, full_list |->
             sku.ingredients]}]
    [] op = "insert_social_stats" ->
         [store EXCEPT !.social = @ \cup {[product_id |-> pid, burn_rate |-> vec.burn_rate]}]
    [] op = "expert_knowledge" ->
         [store EXCEPT !.snippets =
            upsert_kb_snippet(@, Snippet(pid, "expert_knowledge", "notes",
                Strip(sku.expert_knowledge)))]
    [] op = "key_actives" ->
         [store EXCEPT !.snippets =
            upsert_kb_snippet(@, Snippet(pid, "zz_ingredients_derived", "key_actives",
                                JoinLabels(infer_key_actives_from_ingredients(sku.ingredients))))]
    [] op = "sensitivity_flags" ->
         [store EXCEPT !.snippets =
            upsert_kb_snippet(@, Snippet(pid, "zz_ingredients_derived", "sensitivity_flags",
                                JoinLabels(infer_risk_flags_from_ingredients(sku.ingredients))))]

\* The first n statements of ops.
RECURSIVE WkApplyAll(_, _, _, _, _, _)
WkApplyAll(store, ops, n, sku, pid, vec) ==
  IF n = 0 THEN store
  ELSE WkApplyAll(WkApply(store, Head(ops).op, sku, pid, vec), Tail(ops), n - 1, sku, pid, vec)

\* ingest_one, lines 2143-2145: except BaseException: db.conn.rollback(); raise.
\* The pending work of the connection after the handler.
WkOnError(committed, pending) == committed

\* An exit that commits the pending work of the connection.
AuroraExitCommits(committed, pending) == pending

\* AuroraDb.__exit__ with an exception: rollback, then close.  The store
\* after the exit.
AuroraExit(committed, pending) == committed

(***************************************************************************)
(* Inputs and runs of the worker                                           *)
(***************************************************************************)
\* Two spellings of one product (accent and case differ): one SKU with an
\* ingredient list and expert knowledge, one with neither.
SkuPool ==
  {[brand |-> <<"E'", "b">>, name |-> <<"x">>, ingredients |-> <<"water", "retinol">>,
    expert_knowledge |-> <<"o", "k">>],
   [brand |-> <<"e", "b">>, name |-> <<"X">>, ingredients |-> Empty,
    expert_knowledge |-> Empty]}

\* The most SKUs one run reads from its input file.
MaxSkus == 2

WkInit ==
  /\ prog = "wk"
  /\ fn = Off
  /\ db = EmptyDb
  /\ tx = EmptyDb
  /\ csv = Off
  /\ kb = Off
  /\ wk = [pc |-> "idle", overwrite |-> FALSE, idx |-> 0, sku |-> ([brand |-> Empty, name |->
         Empty, ingredients |-> Empty, expert_knowledge |-> Empty]), cache |-> ([loaded |->
         FALSE, map |-> << >>]),
           wrote |-> FALSE, before |-> EmptyDb, pending |-> EmptyDb, cause |-> "none",
           pid |-> "", runs |-> 0]

\* main, lines 2382-2384: with AuroraDb(database_url) as db; __enter__ opens
\* the connection and empties the cache of normalised product ids.
WkStart(overwrite) ==
  /\ prog = "wk"
  /\ wk.pc \in {"idle", "done", "aborted"}
  /\ wk.runs < MaxWorkerRuns
  /\ UNCHANGED <<prog, fn, db, csv, kb>>
  /\ tx' = db
  /\ wk' = [wk EXCEPT !.pc = "running", !.overwrite = overwrite, !.idx = 1, !.sku = ([brand |->
         Empty, name |-> Empty, ingredients |-> Empty, expert_knowledge |-> Empty]),
                      !.cache = [loaded |-> FALSE, map |-> << >>], !.wrote = FALSE,
                      !.before = db, !.pending = db,
                      !.cause = "none", !.pid = "", !.runs = @ + 1]

WkSettle(sku, found, pid, cause, pending, after) ==
  /\ db' = after
  /\ tx' = after
  /\ wk' = [wk EXCEPT !.cache = found.cache, !.cause = cause,
                      !.sku = IF cause = "none" THEN ([brand |-> Empty, name |-> Empty,
                          ingredients |-> Empty, expert_knowledge |-> Empty]) ELSE sku,
                      !.pid = IF cause = "none" THEN "" ELSE pid,
                      !.before = IF cause = "none" THEN after ELSE db,
                      !.pending = IF cause = "none" THEN after ELSE pending,
                      !.wrote = (@ \/ after # db),
                      !.pc = IF cause = "none" THEN @ ELSE "aborted",
                      !.idx = IF cause = "none" THEN @ + 1 ELSE @]

\* The end of ingest_one: the commit of line 2141, or the exception raised by
\* statement failAt; the handler of the try block acts when the statement is
\* inside it, and the exception then leaves the with block of main.
WkWrites(sku, found, ops, pid, failAt, pending) ==
  IF failAt = 0 THEN WkSettle(sku, found, pid, "none", pending, pending)
  ELSE WkSettle(sku, found, pid, "write", pending,
                AuroraExit(db, IF ops[failAt].try THEN WkOnError(db, pending) ELSE pending))

WkIngest(sku, found, ops, pid, failAt, vec) ==
  /\ failAt <= Len(ops)
  /\ WkWrites(sku, found, ops, pid, failAt,
              WkApplyAll(tx, ops, IF failAt = 0 THEN Len(ops) ELSE failAt - 1, sku, pid, vec))

\* One call of ingest_one from the loop of main (lines 2384-2399) in which
\* the annotation call, when made, returns within the tries of _retry.
\* Statement failAt of the record raises (none when failAt = 0).  Nothing in
\* ingest_one or in main catches the exception: it ends the run.
WkIngestOne(sku, vec, failAt) ==
  /\ prog = "wk"
  /\ wk.pc = "running"
  /\ wk.idx <= MaxSkus
  /\ (\E i \in 1..Len(IdNames) : IdNames[i] \notin ({p.id : p \in tx.products}))
  /\ UNCHANGED <<prog, fn, csv, kb>>
  /\ \E found \in find_product_id_loose(tx.products, wk.cache, sku.brand, sku.name) :
       /\ (found.id # "" /\ ~wk.overwrite) \/ \E failures \in 0..RetryTries : Retry(failures)
       /\ WkIngest(sku, found,
                   SelectSeq(WkOps(found.id # "", wk.overwrite), LAMBDA o : WkExecutes(o.op,
                       sku)),
                   IF found.id # "" THEN found.id ELSE NewId(tx), failAt, vec)

\* One call of ingest_one in which every try of the annotation call raises:
\* _retry re-raises the last error (line 188) through get_vectors_from_llm
\* and ingest_one (line 2073, before any statement of the record) into main.
WkAnnotationRaises(sku, failures) ==
  /\ prog = "wk"
  /\ wk.pc = "running"
  /\ wk.idx <= MaxSkus
  /\ (\E i \in 1..Len(IdNames) : IdNames[i] \notin ({p.id : p \in tx.products}))
  /\ UNCHANGED <<prog, fn, csv, kb>>
  /\ ~Retry(failures)
  /\ \E found \in find_product_id_loose(tx.products, wk.cache, sku.brand, sku.name) :
       /\ ~(found.id # "" /\ ~wk.overwrite)
       /\ WkSettle(sku, found, IF found.id # "" THEN found.id ELSE NewId(tx), "annotation",
                   tx, AuroraExit(db, tx))

\* The input is exhausted: the with block is left and the connection closed.
WkDone ==
  /\ prog = "wk"
  /\ wk.pc = "running"
  /\ wk.idx > 1
  /\ UNCHANGED <<prog, fn, db, tx, csv, kb>>
  /\ wk' = [wk EXCEPT !.pc = "done"]

WkNext ==
  \/ \E overwrite \in BOOLEAN : WkStart(overwrite)
  \/ \E sku \in SkuPool, vec \in ({[risk_flags |-> Empty, burn_rate |-> "0.03"], [risk_flags |->
         <<"fragrance">>, burn_rate |-> "0.08"]}), failAt \in 0..Len(WkOps(TRUE, TRUE)) :
       WkIngestOne(sku, vec, failAt)
  \/ \E sku \in SkuPool, failures \in 0..RetryTries : WkAnnotationRaises(sku, failures)
  \/ WkDone

SpecWorker == WkInit /\ [][WkNext]_vars

(***************************************************************************)
(* Single functions of the pipeline, called on inputs drawn from small     *)
(* sets: fn holds the call (the function and its arguments) and, once the  *)
(* function has returned, its result.                                      *)
(***************************************************************************)
\* fetch_product_index of the conflict exporter: the first product of a key
\* in the order of created_at stays; the store of the model keeps no
\* created_at, so any product of the key may be the first.
fetch_product_index(products) ==
  LET keys == {IdentityKey(p.brand, p.name) : p \in products}
  IN {[k \in keys |-> f[k].id] :
        f \in {g \in [keys -> products] : \A k \in keys : IdentityKey(g[k].brand, g[k].name) = k}}

\* detect_conflicts: the (normalized_ref, existing_product_id,
\* incoming_product_id) triples of the rows whose product is known and whose
\* reference is mapped to another product; existing is the set of stored
\* mappings of (source_system, source_type).
detect_conflicts(csv_rows, product_index, existing, source_type) ==
  {[source_ref_normalized |-> r.external_ref_normalized,
    existing_product_id |-> r.product_id,
    incoming_product_id |-> product_index[IdentityKey(csv_rows[i].brand, csv_rows[i].name)]] :
     <<i, r>> \in {c \in (1..Len(csv_rows)) \X existing :
                     /\ IdentityKey(csv_rows[c[1]].brand, csv_rows[c[1]].name)
                          \in DOMAIN product_index
                     /\ normalize_crosswalk_ref_by_type(source_type, csv_rows[c[1]].source_ref)
                          = c[2].external_ref_normalized
                     /\ c[2].product_id
                          # product_index[IdentityKey(csv_rows[c[1]].brand,
                                                      csv_rows[c[1]].name)]}}

\* The cleanup without the source_type condition.
apply_cleanup_all_types(xw, source_system, source_type, rows) ==
  {r \in xw : ~(/\ r.source_system = source_system
                /\ r.external_ref_normalized \in {c.source_ref_normalized : c \in rows})}

\* apply_cleanup: DELETE FROM product_crosswalks WHERE source_system = %s AND
\* source_type = %s AND external_ref_normalized = ANY(refs).
apply_cleanup(xw, source_system, source_type, rows) ==
  {r \in xw : ~(/\ r.source_system = source_system
                /\ r.source_type = source_type
                /\ r.external_ref_normalized \in {c.source_ref_normalized : c \in rows})}

\* Rows of the CSV file of an exporter run.
MaxExportRows == 2

\* A burn rate is a float in hundredths (kind "num"), the float nan (kind
\* "nan") or a value float() raises on (kind "str").
Num(v) == [kind |-> "num", v |-> v]

\* a < b on floats: False when either side is nan.
FloatLt(a, b) == a.kind = "num" /\ b.kind = "num" /\ a.v < b.v

\* _clamp_float: float(value), min_value when that raises, then the two
\* comparisons.
clamp_float(value, min_value, max_value) ==
  LET n == IF value.kind = "str" THEN min_value ELSE value
  IN IF FloatLt(n, min_value) THEN min_value
     ELSE IF FloatLt(max_value, n) THEN max_value
     ELSE n

\* _looks_like_wash_off_product: a word of the lexicon occurs in the
\* lower-cased name; the names of the model and the words they hold.
looks_like_wash_off_product(name) ==
  LET words == CASE name = "Gentle Foaming Cleanser" -> {"cleanser", "foaming", "foam"}
                 [] name = "BODY WASH" -> {"wash", "body wash"}
                 [] OTHER -> {}
  IN words \cap {"cleanser", "cleansing", "face wash", "facial wash", "wash", "soap", "foaming",
                 "foam", "gel cleanser", "body wash"} # {}

\* calibrate_burn_rate, rates in hundredths.  min(a, b) and max(a, b) of
\* Python return the first argument unless the second is smaller (greater).
calibrate_burn_rate(burn_rate, risk_flags, product_name) ==
  LET PyMin(a, b) == IF FloatLt(b, a) THEN b ELSE a
      PyMax(a, b) == IF FloatLt(a, b) THEN b ELSE a
      br == clamp_float(burn_rate, Num(0), Num(100))
      wash_off == looks_like_wash_off_product(product_name)
      has(f) == \E i \in 1..Len(risk_flags) : risk_flags[i] = f
      has_strong == \E f \in {"strong_acid", "retinol_high", "benzoyl_peroxide",
                              "high_irritation"} : has(f)
      has_medium == \E f \in {"alcohol_high", "fragrance", "mint"} : has(f)
  IN IF wash_off /\ ~has_strong THEN PyMin(br, IF has_medium THEN Num(10) ELSE Num(8))
     ELSE IF has_strong THEN PyMax(br, Num(12))
     ELSE IF has_medium THEN PyMin(br, Num(25))
     ELSE PyMin(br, Num(15))

\* get_vectors_from_llm, lines 506-521: the burn rate of the normalised
\* social_stats.  A missing or zero estimate of the model is replaced by the
\* default of the flags; the result is calibrated.
vectors_burn_rate(social_burn, final_risk_flags, name) ==
  LET has(f) == \E i \in 1..Len(final_risk_flags) : final_risk_flags[i] = f
      default_burn_rate ==
        IF \E f \in {"high_irritation", "strong_acid", "retinol_high", "benzoyl_peroxide"} :
             has(f) THEN Num(15)
        ELSE IF \E f \in {"alcohol_high", "fragrance", "mint", "mild_acid"} : has(f)
        THEN Num(8)
        ELSE Num(3)
      burn_rate_raw == IF social_burn \in {[kind |-> "none", v |-> 0], Num(0)}
                       THEN default_burn_rate ELSE social_burn
  IN calibrate_burn_rate(clamp_float(IF burn_rate_raw.kind = "str" THEN Num(0)
                                     ELSE burn_rate_raw, Num(0), Num(100)),
                         final_risk_flags, name)

\* ingest_one, lines 2078-2102 and 2131-2138: the burn rate written to
\* social_stats for each --social-provider.  raw_burn is the burnRate of the
\* answer of get_social_simulation_openai (kind "none" when the key is absent).
social_payload_burn_rate(social_provider, vectors_burn, raw_burn) ==
  LET float_or_min(value) == IF value.kind = "none" THEN [kind |-> "str", v |-> 0] ELSE value
  IN CASE social_provider = "openai" -> clamp_float(float_or_min(raw_burn), Num(0), Num(100))
       [] social_provider = "llm" ->
            clamp_float(IF vectors_burn = Num(0) THEN [kind |-> "str", v |-> 0]
                        ELSE vectors_burn, Num(0), Num(100))
       [] OTHER -> Num(0)

\* _norm_lower of the converter: NFKD, combining marks removed, lower.
norm_lower(s) == CaseFold([i \in 1..Len(s) |-> NfkdBase(s[i])])

\* A bucket text is the sequence of its chunks between "|", each stripped; the
\* empty text has no chunk or one empty chunk.
\* clean_text: the stripped text, or the empty text when that is empty or "nan".
clean_text(value) ==
  IF value = Empty \/ (Len(value) = 1 /\ CaseFold(value[1]) \in {Empty, <<"n", "a", "n">>})
  THEN Empty
  ELSE value

\* _dedupe_join: existing when new is empty, new when existing is empty, else
\* the non-empty chunks of existing + " | " + new whose _norm_lower key did
\* not occur earlier.
dedupe_join(existing, new) ==
  LET a == clean_text(existing)
      b == clean_text(new)
      chunks == SelectSeq(a \o b, LAMBDA c : c # Empty)
  IN IF b = Empty THEN a
     ELSE IF a = Empty THEN b
     ELSE FirstByKey(chunks, [i \in 1..Len(chunks) |-> norm_lower(chunks[i])])

\* Chunks of a bucket text.
MaxFragments == 2

\* A product name is the sequence of its words, a word in round brackets
\* being a parenthetical qualifier.
\* str.lower on the words of the model.
LowerWords(name) ==
  [i \in 1..Len(name) |->
     CASE name[i] = "Lipikar" -> "lipikar" [] name[i] = "Baume" -> "baume"
       [] name[i] = "Balm" -> "balm" [] name[i] = "Light" -> "light"
       [] name[i] = "AP+M" -> "ap+m" [] name[i] = "Triple" -> "triple"
       [] name[i] = "Repair" -> "repair" [] OTHER -> name[i]]

\* re.sub(r"\([^)]*\)", " ", name)
WithoutParens(name) == SelectSeq(name, LAMBDA w : w # "(tub)")

\* _tokenize: accents stripped, lower, "+" to blank, split on [^a-z0-9]+, the
\* parts of two characters and more ("ap+m" leaves "ap").
tokenize(text) ==
  LET part(w) == CASE w = "ap+m" -> "ap" [] w = "(tub)" -> "tub" [] OTHER -> w
  IN [i \in 1..Len(text) |-> part(LowerWords(text)[i])]

\* canonical_name_key: the tokens of the name without its parenthetical
\* qualifiers that are not stop words.
canonical_name_key(name) ==
  SelectSeq(tokenize(WithoutParens(name)),
            LAMBDA t : t \notin {"new", "version", "us", "eu", "global", "in", "the", "tub",
                                 "triple", "repair", "body", "lotion", "cream", "serum", "gel",
                                 "cleanser"})

\* generate_name_candidates: the name, the name without parentheses, and the
\* variants of the AP+M and triple-repair rules (the two re.sub calls leave
\* the name as it is: their patterns hold a literal backslash), without the
\* ones whose key occurred earlier, eight at most.
generate_name_candidates(name) ==
  LET low == LowerWords(name)
      has_apm == \E i \in 1..Len(name) : low[i] = "ap+m"
      has_triple_repair ==
        \E i \in 1..(Len(name) - 1) : low[i] = "triple" /\ low[i + 1] = "repair"
      out == <<name>>
             \o (IF WithoutParens(name) # Empty /\ WithoutParens(name) # name
                 THEN <<WithoutParens(name)>> ELSE Empty)
             \o (IF has_apm THEN <<name, <<"Lipikar", "Baume", "AP+M">>>> ELSE Empty)
             \o (IF has_triple_repair THEN <<name, <<"Lipikar", "Baume", "AP+M">>>> ELSE Empty)
      key(v) == IF canonical_name_key(v) # Empty THEN canonical_name_key(v) ELSE LowerWords(v)
      uniq == FirstByKey(out, [i \in 1..Len(out) |-> key(out[i])])
  IN IF name = Empty THEN Empty
     ELSE SubSeq(uniq, 1, IF Len(uniq) < 8 THEN Len(uniq) ELSE 8)

\* A score is a fraction n / d; a < b on scores.
ScoreLt(a, b) == a.n * b.d < b.n * a.d

\* The strict form of the acceptance rule.
AcceptedStrictly(score) == ScoreLt([n |-> 55, d |-> 100], score)

\* not (score < 0.55)
Accepted(score) == ~ScoreLt(score, [n |-> 55, d |-> 100])

\* jaccard of two token lists plus the bonus of 0.15, capped at 1.0, when one
\* name is part of the other.
FuzzyScore(want, got) ==
  LET sa == {tokenize(WithoutParens(want))[i] : i \in 1..Len(WithoutParens(want))}
      sb == {tokenize(WithoutParens(got))[i] : i \in 1..Len(WithoutParens(got))}
      jaccard == IF sa = {} /\ sb = {} THEN [n |-> 1, d |-> 1]
                 ELSE IF sa = {} \/ sb = {} THEN [n |-> 0, d |-> 1]
                 ELSE [n |-> Cardinality(sa \cap sb), d |-> Cardinality(sa \cup sb)]
      within(x, y) ==
        \E k \in 0..(Len(y) - Len(x)) : SubSeq(LowerWords(y), k + 1, k + Len(x)) = LowerWords(x)
      bonus == want # Empty /\ got # Empty /\ (within(want, got) \/ within(got, want))
      raised == [n |-> 100 * jaccard.n + 15 * jaccard.d, d |-> 100 * jaccard.d]
  IN IF ~bonus THEN jaccard
     ELSE IF ScoreLt([n |-> 1, d |-> 1], raised) THEN [n |-> 1, d |-> 1]
     ELSE raised

\* best_match: the place in sources of the item returned (0 for None), the
\* method and the score.  Candidates are the places of the items of the brand.
best_match(sources, brand, name) ==
  LET canonical_brand_key(b) == IF b \in {"lrp", "La Roche-Posay"} THEN "larocheposay" ELSE b
      candidates == SelectSeq([i \in 1..Len(sources) |-> i],
                              LAMBDA i : canonical_brand_key(sources[i].brand)
                                           = canonical_brand_key(brand))
      variants == generate_name_candidates(name)
      hits == {h \in (1..Len(variants)) \X (1..Len(candidates)) :
                 /\ canonical_name_key(variants[h[1]]) # Empty
                 /\ canonical_name_key(sources[candidates[h[2]]].name)
                      = canonical_name_key(variants[h[1]])}
      first == CHOOSE h \in hits :
                 \A g \in hits : h[1] < g[1] \/ (h[1] = g[1] /\ h[2] <= g[2])
      score(c) == FuzzyScore(name, sources[candidates[c]].name)
      best == CHOOSE c \in 1..Len(candidates) :
                /\ \A e \in 1..Len(candidates) : ~ScoreLt(score(c), score(e))
                /\ \A e \in 1..(c - 1) : ScoreLt(score(e), score(c))
  IN IF candidates = Empty
     THEN [match |-> 0, method |-> "no_brand_match", score |-> [n |-> 0, d |-> 1]]
     ELSE IF hits # {}
     THEN [match |-> candidates[first[2]], method |-> "exact", score |-> [n |-> 1, d |-> 1]]
     ELSE IF ~Accepted(score(best))
     THEN [match |-> 0, method |-> "low_confidence", score |-> score(best)]
     ELSE [match |-> candidates[best], method |-> "fuzzy", score |-> score(best)]

\* Items of the sources of a match.
MaxSources == 2

\* Every field of the product taken from the incoming row.
upsert_product_last_wins(by_key, sheet, row) == {row}

\* upsert_product of the sheet merger, on the entry of one product key:
\* by_key holds the ProductAcc of the key, if any; row holds the values the
\* function derives from its arguments (infer_metadata, strip_brand_prefix,
\* the regions, estimate_prices as the pair price, the expert texts as one
\* bucket).  A row with a name or key too short is dropped.
upsert_product(by_key, sheet, row) ==
  IF ~row.valid THEN by_key
  ELSE IF by_key = {} THEN {row}
  ELSE {[valid |-> TRUE,
         brand |-> IF existing.brand = "Unknown" /\ row.brand # "Unknown"
                   THEN row.brand ELSE existing.brand,
         name |-> IF existing.name \in {"product_key", ""} /\ row.name # ""
                  THEN row.name ELSE existing.name,
         ingredients |-> IF row.ingredients # ""
                            /\ (existing.ingredients = "" \/ sheet = "Ingredients_Collected")
                         THEN row.ingredients ELSE existing.ingredients,
         category |-> IF row.category # ""
                         /\ (existing.category = "Treatment" \/ sheet = "Ingredients_Collected")
                      THEN row.category ELSE existing.category,
         availability |-> existing.availability \cup row.availability,
         price |-> IF existing.price = <<35, 250>> /\ row.price # <<35, 250>>
                   THEN row.price ELSE existing.price,
         expert_knowledge |-> dedupe_join(existing.expert_knowledge, row.expert_knowledge)] :
          existing \in by_key}

\* Rows merged into one product key.
MaxMergedRows == 3

\* Leading "water" items of an ingredient text, further items after them and
\* hinted flags of a call.
MaxPad == 10
MaxTerms == 2
MaxHints == 1

\* The calls of the model.  Identity lookups: a stored product and a record,
\* each with a brand and a name out of spellings that differ in case and
\* diacritics, and one of the three paths that look a record up.  Flaggings:
\* an ingredient text and the flags an annotation hints for it.
FnCalls ==
  LET brands == {<<"E'", "b">>, <<"e", "b">>, <<"E", "b">>, <<"c">>}
      names == {<<"x">>, <<"X">>}
      lookups == {[pc |-> "called", call |-> c, stored |-> [brand |-> sb, name |-> sn],
                   brand |-> b, name |-> n, result |-> << >>] :
                    c \in {"find_product_id_loose", "ingest_rows", "detect_conflicts"},
                    sb \in brands, sn \in names, b \in brands, n \in names}
      terms == {"", "retinol", "salicylic acid", "Glycolic Acid", "mandelic acid",
                "benzoyl peroxide", "parfum"}
      hints == {"Retinol", "acid", "High Irritation", "fragrance", "paraben", "!"}
      flaggings == {[pc |-> "called", call |-> "postprocess_risk_flags",
                     ingredients_text |-> [i \in 1..pad |-> "water"] \o tail,
                     llm_flags |-> h, result |-> << >>] :
                      pad \in 0..MaxPad, tail \in SeqsUpTo(terms, MaxTerms),
                      h \in SeqsUpTo(hints, MaxHints)}
      rates == {Num(v) : v \in {-5, 0, 5, 8, 9, 10, 11, 12, 13, 15, 20, 25, 30, 100, 150}}
                 \cup {[kind |-> "nan", v |-> 0], [kind |-> "str", v |-> 0]}
      calibrations == {[pc |-> "called", call |-> "calibrate_burn_rate", burn_rate |-> r,
                        risk_flags |-> f, product_name |-> n, result |-> << >>] :
                         r \in rates,
                         f \in {<< >>, <<"fragrance">>, <<"mild_acid">>, <<"alcohol_high",
                             "mint">>,
                                <<"retinol_high", "high_irritation">>, <<"benzoyl_peroxide">>},
                         n \in {"Gentle Foaming Cleanser", "BODY WASH", "Night Serum", ""}}
      fragments == {<<"e", " ", "b">>, <<"E'", " ", "b">>, <<"e", "-", "b">>,
                    <<"e", " ", " ", "b">>, <<"n", "a", "n">>, Empty}
      merges == {[pc |-> "called", call |-> "_merge_expert", existing |-> a, new |-> b,
                  result |-> << >>] :
                   a \in SeqsUpTo(fragments, MaxFragments), b \in SeqsUpTo(fragments,
                       MaxFragments)}
      product_names == {<<"Lipikar", "Baume", "AP+M">>, <<"Lipikar", "AP+M", "Balm">>,
                        <<"Lipikar", "Balm">>, <<"Lipikar", "Balm", "(tub)">>,
                        <<"Baume", "AP+M">>,
                        <<"Lipikar", "Baume", "AP+M", "Balm", "Light">>,
                        <<"Triple", "Repair">>}
      matches == {[pc |-> "called", call |-> "best_match", sources |-> src, item_brand |-> b,
                   item_name |-> n, result |-> << >>] :
                    src \in SeqsUpTo([brand : {"La Roche-Posay", "CeraVe"}, name : product_names],
                                     MaxSources),
                    b \in {"lrp", "CeraVe"}, n \in product_names}
      texts == {<<"a">>, <<"A">>, <<"b">>, <<"a", "|", "|", "b">>, <<"b", "|", "|", "c">>,
                <<"c">>}
      keyings == {[pc |-> "called", call |-> "identity_key", first |-> [brand |-> b1, name |->
          n1],
                   second |-> [brand |-> b2, name |-> n2], result |-> << >>] :
                    b1 \in texts, n1 \in texts, b2 \in texts, n2 \in texts}
      url(scheme, host, segments, d) ==
        <<scheme, ":", "/", "/">> \o host
        \o (IF segments THEN (IF d.doubled THEN <<"/", "/", "p", "/", "/", "/", "1">>
                              ELSE <<"/", "p", "/", "1">>)
            ELSE Empty)
        \o (IF d.slash THEN <<"/">> ELSE Empty)
        \o (IF d.query THEN <<"?", "x", "=", "/", "y">> ELSE Empty)
        \o (IF d.fragment THEN <<"#", "a", "/">> ELSE Empty)
      decorations == [doubled : BOOLEAN, slash : BOOLEAN, query : BOOLEAN, fragment : BOOLEAN]
      references == {[pc |-> "called", call |-> "normalize_crosswalk_ref_by_type",
                      first |-> url(s, h1, seg, d), second |-> url(s, h2, seg, plain),
                      other |-> o, result |-> << >>] :
                       s \in {"https", "http", "HTTPS"}, h1 \in {<<"b", ".", "c">>, <<"B", ".",
                           "C">>},
                       h2 \in {<<"b", ".", "c">>, <<"B", ".", "c">>}, seg \in BOOLEAN,
                       d \in decorations,
                       plain \in {[doubled |-> FALSE, slash |-> FALSE, query |-> FALSE,
                                   fragment |-> FALSE]},
                       o \in {Empty, <<"ftp", ":", "/", "/", "b", ".", "c", "/", "p">>,
                              <<"b", ".", "c", "/", "p">>, <<"/", "/", "b", ".", "c", "/", "p">>}}
      mapping(system, type, normalized, pid) ==
        [product_id |-> pid, source_system |-> system, source_type |-> type,
         external_ref |-> normalized, external_ref_normalized |-> normalized,
         confidence |-> "1"]
      mappings == {mapping("merchant", "source_ref_url", <<"b", ".", "c", "/", "p">>, "p1"),
                   mapping("merchant", "source_ref_url", <<"b", ".", "c", "/", "q">>, "p2"),
                   mapping("merchant", "canonical_url", <<"b", ".", "c", "/", "p">>, "p1"),
                   mapping("other", "source_ref_url", <<"b", ".", "c", "/", "p">>, "p1")}
      export_rows == [brand : {<<"a">>, <<"B">>}, name : {<<"x">>},
                      source_ref : {<<"https", ":", "/", "/", "B", ".", "c", "/", "p", "/">>,
                                    <<"https", ":", "/", "/", "b", ".", "c", "/", "q">>}]
      exports == {[pc |-> "called", call |-> "export_crosswalk_conflicts", existing |-> xs,
                   csv_rows |-> rows, source_system |-> "merchant",
                   source_type |-> "source_ref_url", apply |-> a, result |-> << >>] :
                    xs \in SUBSET mappings, rows \in SeqsUpTo(export_rows, MaxExportRows),
                    a \in BOOLEAN}
      mergings == {[pc |-> "called", call |-> "upsert_product", by_key |-> {}, merged |-> 0,
                    sheet |-> "", result |-> << >>]}
      socials == {[pc |-> "called", call |-> "insert_social_stats", social_provider |-> p,
                   social_burn |-> s, raw_burn |-> r, risk_flags |-> f, product_name |-> n,
                   result |-> << >>] :
                    p \in {"openai", "llm", "none"},
                    s \in {Num(0), Num(5), Num(30), [kind |-> "none", v |-> 0]},
                    r \in {Num(5), Num(30), Num(150), [kind |-> "none", v |-> 0]},
                    f \in {<< >>, <<"fragrance">>, <<"retinol_high", "high_irritation">>},
                    n \in {"Gentle Foaming Cleanser", "Night Serum"}}
      updates == {[pc |-> "called", call |-> "ingredient_update",
                   sku |-> [brand |-> <<"a">>, name |-> <<"x">>, ingredients |-> old,
                            expert_knowledge |-> Empty],
                   hints |-> h, full_list |-> new, result |-> << >>] :
                    old \in {<<"water", "retinol">>, <<"water", "niacinamide">>},
                    new \in {<<"water", "retinol">>, <<"water", "niacinamide">>,
                             <<"water", "salicylic acid", "parfum">>},
                    h \in {Empty, <<"fragrance">>}}
      records ==
        LET rec(b, rs, ps, inci, raw) ==
              [brand |-> b, product_name |-> <<"x">>, review_status |-> rs,
               parse_status |-> ps, inci_list |-> inci, raw_ingredient_text |-> raw]
        IN {rec(<<"a">>, "OK", "OK", <<"a", "b", ";", "c", "x">>, Empty),
            rec(<<"A", " ">>, "ok", "ok", <<"A", "b", ";", " ", "c", "x", ";", "a", "b">>,
                Empty),
            rec(<<"a">>, "", "OK", Empty,
                <<"Ingredients", ":", " ", "a", "b", ",", "c", "x", ",", "p", "e">>),
            rec(<<"a">>, "OK", "OK", <<"a", "b", ",", "c", "x", ",", "p", "e">>, Empty),
            rec(<<"b">>, "OK", "", <<"a", "b">>, Empty),
            rec(<<"a">>, "rejected", "OK", <<"a", "b">>, Empty),
            rec(<<"a">>, "OK", "needs_source", <<"a", "b">>, Empty),
            rec(<<" ">>, "OK", "OK", <<"a", "b">>, Empty),
            rec(<<"a">>, "OK", "OK", <<"a", ";", ".">>, <<"a", "b">>)}
      buildings == {[pc |-> "called", call |-> "build_rows", df |-> df, result |-> << >>] :
                      df \in UNION {[1..n -> records] : n \in 1..MaxBuildRows}}
  IN lookups \cup flaggings \cup calibrations \cup merges \cup matches \cup keyings \cup
      references \cup exports \cup mergings \cup socials \cup updates \cup buildings

\* The store a call runs against: the stored product of an identity lookup,
\* two products and the stored mappings of an exporter run.
FnStore(call) ==
  IF "stored" \in DOMAIN call
  THEN [EmptyDb EXCEPT !.products = {[id |-> "p1", brand |-> call.stored.brand,
                                      name |-> call.stored.name, url |-> Empty, regions |-> {}]}]
  ELSE IF "existing" \in DOMAIN call
  THEN [EmptyDb EXCEPT !.products = {[id |-> "p1", brand |-> <<"a">>, name |-> <<"x">>,
                                      url |-> Empty, regions |-> {}],
                                     [id |-> "p2", brand |-> <<"b">>, name |-> <<"x">>,
                                      url |-> Empty, regions |-> {}]},
                       !.crosswalks = call.existing]
  ELSE IF "sku" \in DOMAIN call
  THEN LET ops == SelectSeq(WkOps(FALSE, FALSE), LAMBDA o : WkExecutes(o.op, call.sku))
       IN WkApplyAll(EmptyDb, ops, Len(ops), call.sku, "p1",
                     [risk_flags |-> call.hints, burn_rate |-> "0.03"])
  ELSE EmptyDb

FnInit ==
  /\ prog = "fn"
  /\ fn \in FnCalls
  /\ db = FnStore(fn)
  /\ tx = db
  /\ csv = Off
  /\ kb = Off
  /\ wk = Off

\* The lookup of a record in each ingestion path and the products the store
\* holds after the path has found or created the product of the record:
\* ingest_one (lines 2060, 2112, 2119), ingest_rows (CSV ingest, lines
\* 564-609) and detect_conflicts of the exporter (lines 185-188, read-only).
ResolveIdentity ==
  /\ prog = "fn"
  /\ fn.pc = "called"
  /\ fn.call \in {"find_product_id_loose", "ingest_rows", "detect_conflicts"}
  /\ UNCHANGED <<prog, db, tx, csv, kb, wk>>
  /\ \E r \in
       CASE fn.call = "find_product_id_loose" ->
              {[found |-> f.id,
                products |-> IF f.id # "" THEN db.products
                             ELSE WkApply(db, "insert_product", fn, NewId(db), << >>).products] :
                 f \in find_product_id_loose(db.products, [loaded |-> FALSE, map |-> << >>],
                                             fn.brand, fn.name)}
         [] fn.call = "ingest_rows" ->
              {[found |-> st.pindex[IdentityKey(fn.brand, fn.name)].id,
                products |-> st.tx.products] :
                 st \in {CsvProductStep([tx |-> db, pindex |-> ix, stats |-> ZeroStats],
                                        [brand |-> fn.brand, name |-> fn.name, market |-> Empty,
                                         source_ref |-> Empty],
                                        [region |-> TRUE]) : ix \in ProductIndexes(db.products)}}
         [] fn.call = "detect_conflicts" ->
              {[found |-> IF IdentityKey(fn.brand, fn.name) \in DOMAIN ix
                          THEN ix[IdentityKey(fn.brand, fn.name)] ELSE "",
                products |-> db.products] : ix \in fetch_product_index(db.products)} :
       fn' = [fn EXCEPT !.pc = "returned", !.result = r]

\* The flags of an ingredient text: the deterministic pass and the pass over
\* the hinted flags (get_vectors_from_llm, line 504).
FlagRisks ==
  /\ prog = "fn"
  /\ fn.pc = "called"
  /\ fn.call = "postprocess_risk_flags"
  /\ UNCHANGED <<prog, db, tx, csv, kb, wk>>
  /\ fn' = [fn EXCEPT !.pc = "returned",
                      !.result = [deterministic |->
                                    infer_risk_flags_from_ingredients(fn.ingredients_text),
                                  final |-> postprocess_risk_flags(fn.llm_flags,
                                                                   fn.ingredients_text)]]

\* calibrate_burn_rate on a reported burn rate.
CalibrateBurnRate ==
  /\ prog = "fn"
  /\ fn.pc = "called"
  /\ fn.call = "calibrate_burn_rate"
  /\ UNCHANGED <<prog, db, tx, csv, kb, wk>>
  /\ fn' = [fn EXCEPT !.pc = "returned",
                      !.result = calibrate_burn_rate(fn.burn_rate, fn.risk_flags,
                                                     fn.product_name)]

\* _merge_expert on one field: the bucket after the incoming text is merged
\* into it, and after it is merged a second time.
MergeExpert ==
  /\ prog = "fn"
  /\ fn.pc = "called"
  /\ fn.call = "_merge_expert"
  /\ UNCHANGED <<prog, db, tx, csv, kb, wk>>
  /\ fn' = [fn EXCEPT !.pc = "returned",
                      !.result = [once |-> dedupe_join(fn.existing, fn.new),
                                  twice |-> dedupe_join(dedupe_join(fn.existing, fn.new),
                                                        fn.new)]]

\* best_match for an item of the pack (patch_item, line 301).
BestMatch ==
  /\ prog = "fn"
  /\ fn.pc = "called"
  /\ fn.call = "best_match"
  /\ UNCHANGED <<prog, db, tx, csv, kb, wk>>
  /\ fn' = [fn EXCEPT !.pc = "returned", !.result = best_match(fn.sources, fn.item_brand,
                                                             fn.item_name)]

\* The identity keys of two records (build_rows, line 268; the same
\* expression in fetch_product_index of the exporter, line 147).
IdentityKeys ==
  /\ prog = "fn"
  /\ fn.pc = "called"
  /\ fn.call = "identity_key"
  /\ UNCHANGED <<prog, db, tx, csv, kb, wk>>
  /\ fn' = [fn EXCEPT !.pc = "returned",
                      !.result = [first |-> IdentityKey(fn.first.brand, fn.first.name),
                                  second |-> IdentityKey(fn.second.brand, fn.second.name)]]

\* The keys of two URL references of a URL-typed crosswalk source (line 474
\* of the CSV ingest; normalize_crosswalk_ref of the exporter, lines 52-61),
\* and canonicalize_url_reference on another reference.
NormalizeReferences ==
  /\ prog = "fn"
  /\ fn.pc = "called"
  /\ fn.call = "normalize_crosswalk_ref_by_type"
  /\ UNCHANGED <<prog, db, tx, csv, kb, wk>>
  /\ fn' = [fn EXCEPT !.pc = "returned",
                      !.result = [first |-> normalize_crosswalk_ref_by_type("canonical_url",
                                                                            fn.first),
                                  second |-> normalize_crosswalk_ref_by_type("canonical_url",
                                                                             fn.second),
                                  other |-> canonicalize_url_reference(fn.other)]]

\* main of the exporter: the conflicts of the CSV rows against the stored
\* mappings of (source_system, source_type) are reported; with --apply the
\* cleanup is executed and committed, else the transaction is rolled back.
ExportConflicts ==
  /\ prog = "fn"
  /\ fn.pc = "called"
  /\ fn.call = "export_crosswalk_conflicts"
  /\ UNCHANGED <<prog, csv, kb, wk>>
  /\ \E ix \in fetch_product_index(db.products) :
       LET existing == {r \in db.crosswalks : /\ r.source_system = fn.source_system
                                              /\ r.source_type = fn.source_type}
           conflicts == detect_conflicts(fn.csv_rows, ix, existing, fn.source_type)
           cleaned == apply_cleanup(db.crosswalks, fn.source_system, fn.source_type, conflicts)
       IN /\ db' = IF fn.apply THEN [db EXCEPT !.crosswalks = cleaned] ELSE db
          /\ tx' = db'
          /\ fn' = [fn EXCEPT !.pc = "returned",
                              !.result = [conflicts |-> conflicts,
                                          deleted |-> IF fn.apply
                                                      THEN Cardinality(db.crosswalks \ cleaned)
                                                      ELSE 0]]

\* One call of upsert_product for a row of the main sheet or of a comparison
\* sheet (convert_csv_v6.py main, lines 430-500).
UpsertProduct ==
  /\ prog = "fn"
  /\ fn.pc = "called"
  /\ fn.call = "upsert_product"
  /\ fn.merged < MaxMergedRows
  /\ UNCHANGED <<prog, db, tx, csv, kb, wk>>
  /\ \E sheet \in {"Ingredients_Collected", "Comparison_Serums"},
        row \in [valid : BOOLEAN, brand : {"Unknown", "Avene"}, name : {"product_key",
            "Cicalfate"},
                 ingredients : {"", "water", "aqua"}, category : {"", "Treatment", "Serum"},
                 availability : {{"CN"}}, price : {<<35, 250>>, <<12, 88>>},
                 expert_knowledge : {<<<<"e", " ", "b">>>>}] :
       fn' = [fn EXCEPT !.by_key = upsert_product(fn.by_key, sheet, row),
                        !.merged = @ + 1,
                        !.sheet = sheet]

\* ingest_one for one product, from the annotation to insert_social_stats:
\* the burn rate that is committed.
InsertSocialStats ==
  /\ prog = "fn"
  /\ fn.pc = "called"
  /\ fn.call = "insert_social_stats"
  /\ UNCHANGED <<prog, db, tx, csv, kb, wk>>
  /\ fn' = [fn EXCEPT !.pc = "returned",
                      !.result = social_payload_burn_rate(
                                   fn.social_provider,
                                   vectors_burn_rate(fn.social_burn, fn.risk_flags,
                                                     fn.product_name),
                                   fn.raw_burn)]

\* A commit run of the reviewed-CSV ingest with one row, on a store that
\* holds the product of the row as ingest_one of the worker wrote it.
IngestRows ==
  /\ prog = "fn"
  /\ fn.pc = "called"
  /\ fn.call = "ingredient_update"
  /\ UNCHANGED <<prog, csv, kb, wk>>
  /\ \E pindex \in ProductIndexes(db.products), iindex \in IngredientIndexes(db.ingredients) :
       db' = CsvEndOfRun(TRUE, db,
               CsvProcessRow([tx |-> db, pindex |-> pindex, iindex |-> iindex,
                              stats |-> ZeroStats],
                             [RowA1 EXCEPT !.brand = fn.sku.brand, !.name = fn.sku.name,
                                           !.ingredient_list = fn.full_list],
                             Flags(TRUE, FALSE, FALSE, FALSE),
                             Schema(TRUE, TRUE, TRUE)).tx)
  /\ tx' = db'
  /\ fn' = [fn EXCEPT !.pc = "returned"]

\* build_rows on the records of one input file.
BuildRows ==
  /\ prog = "fn"
  /\ fn.pc = "called"
  /\ fn.call = "build_rows"
  /\ UNCHANGED <<prog, db, tx, csv, kb, wk>>
  /\ fn' = [fn EXCEPT !.pc = "returned", !.result = build_rows(fn.df)]

FnNext ==
  \/ ResolveIdentity
  \/ FlagRisks
  \/ CalibrateBurnRate
  \/ MergeExpert
  \/ BestMatch
  \/ IdentityKeys
  \/ NormalizeReferences
  \/ ExportConflicts
  \/ UpsertProduct
  \/ InsertSocialStats
  \/ IngestRows
  \/ BuildRows

SpecFn == FnInit /\ [][FnNext]_vars

\* The programs that read or write product_crosswalks: the reviewed-CSV
\* ingest and the conflict exporter.
SpecCrosswalk ==
  (CsvInit \/ (FnInit /\ fn.call = "export_crosswalk_conflicts"))
    /\ [][CsvNext \/ ExportConflicts]_vars

(***************************************************************************)
(* Properties of the reviewed-CSV ingest                                   *)
(***************************************************************************)
\* A step that processes one row with the crosswalk upsert switched on.
CrosswalkRowStep ==
  /\ csv.pc = "running"
  /\ csv'.pc \in {"running", "done"}
  /\ csv.flags.upsert_crosswalks
  /\ csv.has.crosswalks

CrosswalkRefusal ==
  LET row == csv.rows[csv.idx]
      foreign == ({t \in (LET refs == CrosswalkRefs((csv'.lastPid), row,
          csv.flags.include_source_ref) IN {t \in {(<<(refs[i]).source_system,
          (refs[i]).source_type, normalize_crosswalk_ref_by_type((refs[i]).source_type,
          (refs[i]).external_ref)>>) : i \in 1..Len(refs)} : t[3] # Empty}) : \E r \in ({r \in
          tx.crosswalks : (<<r.source_system, r.source_type, r.external_ref_normalized>>) = t}) :
          r.product_id # (csv'.lastPid)})
  IN /\ \A t \in foreign :
          ({r \in (csv'.after.crosswalks) : (<<r.source_system, r.source_type,
              r.external_ref_normalized>>) = t}) = ({r \in tx.crosswalks : (<<r.source_system,
              r.source_type, r.external_ref_normalized>>) = t})
     /\ csv'.stats.crosswalk_conflicts = csv.stats.crosswalk_conflicts + Cardinality(foreign)

\* C1: a triple (source_system, source_type, normalised external ref) that a
\* product A holds is left exactly as it is when a row claims it for another
\* product B, each such triple is counted as one conflict, and in every
\* reachable state, committed or pending, a triple belongs to one product.
C1_CrosswalkConflictRefused ==
  /\ []((\A r1, r2 \in db.crosswalks : (<<r1.source_system, r1.source_type,
         r1.external_ref_normalized>>) = (<<r2.source_system, r2.source_type,
         r2.external_ref_normalized>>) => r1 = r2) /\ (\A r1, r2 \in tx.crosswalks :
         (<<r1.source_system, r1.source_type, r1.external_ref_normalized>>) =
         (<<r2.source_system, r2.source_type, r2.external_ref_normalized>>) => r1 = r2))
  /\ [][CrosswalkRowStep => CrosswalkRefusal]_vars

\* A row has just been refused a triple that another product holds.
C1_Witness ==
  /\ prog = "csv"
  /\ csv.lastPid # ""
  /\ csv.stats.crosswalk_conflicts > 0
  /\ \E r \in csv.after.crosswalks :
       /\ r.product_id # csv.lastPid
       /\ (<<r.source_system, r.source_type, r.external_ref_normalized>>) \in (LET refs ==
              CrosswalkRefs(csv.lastPid, (csv.rows[csv.idx]), csv.flags.include_source_ref) IN {t
              \in {(<<(refs[i]).source_system, (refs[i]).source_type,
              normalize_crosswalk_ref_by_type((refs[i]).source_type, (refs[i]).external_ref)>>) :
              i \in 1..Len(refs)} : t[3] # Empty})

\* C2: a commit run that repeats the previous commit run (same rows, same
\* flags) inserts no product, inserts and updates no ingredients row, and
\* leaves the products, the ingredients rows and the crosswalk triples with
\* their products as the first run left them.
C2_CsvIdempotent ==
  (prog = "csv" /\ csv.pc = "done" /\ csv.repeat) =>
     /\ csv.stats.products_inserted = 0
     /\ csv.stats.ingredients_inserted = 0
     /\ csv.stats.ingredients_updated = 0
     /\ {p.id : p \in db.products} = {p.id : p \in csv.start.products}
     /\ db.ingredients = csv.start.ingredients
     /\ ({<<(<<r.source_system, r.source_type, r.external_ref_normalized>>), r.product_id>> : r
            \in db.crosswalks}) = ({<<(<<r.source_system, r.source_type,
            r.external_ref_normalized>>), r.product_id>> : r \in csv.start.crosswalks})

\* The repeated run has ended and found its rows and crosswalks in the store.
C2_Witness ==
  /\ prog = "csv"
  /\ csv.pc = "done"
  /\ csv.repeat
  /\ csv.stats.ingredients_unchanged = Len(csv.rows)
  /\ csv.stats.crosswalks_upserted > 0
  /\ db.crosswalks # {}

\* C9: when a row of a commit run raises, the writes of the rows processed
\* before it are in the store after the run (csv.after is the pending state
\* after the last row that was processed).
C9_CsvFailureIsolated ==
  (prog = "csv" /\ csv.pc = "aborted" /\ csv.flags.commit) => db = csv.after

(***************************************************************************)
(* Properties of the ingredient-KB ingester                                *)
(***************************************************************************)
\* C3: a commit run that repeats the previous commit run (same files, same
\* flags), which ended with a commit, counts every record as skipped: nothing
\* is inserted, updated, in conflict or failed in any table, no upsert is
\* executed, and the run ends normally with the store as it found it.
C3_KbIdempotent ==
  (prog = "kb" /\ kb.repeat) =>
     /\ (kb.summary["ingredients_master"]["inserted"] +
            kb.summary["ingredient_products"]["inserted"]) = 0
     /\ (kb.summary["ingredients_master"]["updated"] +
            kb.summary["ingredient_products"]["updated"]) = 0
     /\ (kb.summary["ingredients_master"]["conflict"] +
            kb.summary["ingredient_products"]["conflict"]) = 0
     /\ (kb.summary["ingredients_master"]["failed"] +
            kb.summary["ingredient_products"]["failed"]) = 0
     /\ (kb.summary["ingredients_master"]["skipped"] +
            kb.summary["ingredient_products"]["skipped"]) = kb.seen
     /\ kb.upserts = 0
     /\ tx = kb.start
     /\ kb.pc = "done" => (kb.seen = Len(kb.records) /\ db = kb.start)

\* The repeated run has ended; it compared a text row and a row with an
\* integer column against the store.
C3_Witness ==
  /\ prog = "kb"
  /\ kb.repeat
  /\ kb.pc = "done"
  /\ (kb.summary["ingredients_master"]["skipped"] + kb.summary["ingredient_products"]["skipped"])
         = 2
  /\ \E i \in 1..Len(kb.records) : kb.records[i].table = "ingredient_products"

\* C4: a commit run without --allow-overwrite that met a row whose content
\* differs from the stored row of the same primary key ends with the store
\* exactly as it was before the run.
C4_ConflictLeavesStore ==
  ((prog = "kb" /\ kb.pc \in {"done", "aborted"}) /\ kb.flags.commit /\ ~kb.flags.allow_overwrite
      /\ kb.conflicts # Empty) =>
     db = kb.start

\* Such a run has ended after it also inserted a new row.
C4_Witness ==
  /\ (prog = "kb" /\ kb.pc \in {"done", "aborted"})
  /\ kb.flags.commit
  /\ ~kb.flags.allow_overwrite
  /\ kb.conflicts # Empty
  /\ kb.seen = Len(kb.records)
  /\ kb.upserts > 0

\* C5: every record the loop has handled is counted under exactly one of
\* inserted, updated, skipped, conflict, failed, whatever the flags, and
\* records are counted as updated only under --allow-overwrite.
C5_OneOutcomePerRecord ==
  prog = "kb" =>
     /\ ((kb.summary["ingredients_master"]["inserted"] +
            kb.summary["ingredient_products"]["inserted"]) +
            (kb.summary["ingredients_master"]["updated"] +
            kb.summary["ingredient_products"]["updated"]) +
            (kb.summary["ingredients_master"]["skipped"] +
            kb.summary["ingredient_products"]["skipped"]) +
            (kb.summary["ingredients_master"]["conflict"] +
            kb.summary["ingredient_products"]["conflict"]) +
            (kb.summary["ingredients_master"]["failed"] +
            kb.summary["ingredient_products"]["failed"])) = kb.seen
     /\ (kb.summary["ingredients_master"]["updated"] +
            kb.summary["ingredient_products"]["updated"]) > 0 => kb.flags.allow_overwrite

\* C6: when a commit run has walked all its records and ended (with a commit
\* or stopped on a conflict), every record logged as inserted or updated is a
\* row of the store, and every row the store gained or lost against the start
\* of the run is logged so.
C6_AuditCountsFaithful ==
  ((prog = "kb" /\ kb.pc \in {"done", "aborted"}) /\ kb.flags.commit /\ kb.idx > Len(kb.records))
      =>
     /\ \A i \in 1..Len(kb.log) :
          kb.log[i].status \in {"inserted", "updated"} =>
             (fetch_existing_row(db.kbrows, (kb.log[i].table), (kb.log[i].primary_key))) # {}
     /\ \A r \in (db.kbrows \ kb.start.kbrows) \cup (kb.start.kbrows \ db.kbrows) :
          \E i \in 1..Len(kb.log) :
             /\ kb.log[i].status \in {"inserted", "updated"}
             /\ kb.log[i].table = r.table
             /\ kb.log[i].primary_key = r.row[KbPk(r.table)]

(***************************************************************************)
(* The two ingest scripts together                                         *)
(***************************************************************************)
SpecIngest == (CsvInit \/ KbInit) /\ [][CsvNext \/ KbNext]_vars

\* C7: when a dry run of either script has ended, normally or with an
\* error, every relation of the store is as it was before the run.
C7_DryRunCommitsNothing ==
  /\ (prog = "csv" /\ csv.pc \in {"done", "aborted"} /\ ~csv.flags.commit) => db = csv.start
  /\ ((prog = "kb" /\ kb.pc \in {"done", "aborted"}) /\ ~kb.flags.commit) => db = kb.start

\* A dry run of the reviewed-CSV ingest has ended after it inserted a product
\* and wrote crosswalks in its transaction.
C7_Witness ==
  /\ prog = "csv"
  /\ csv.pc = "done"
  /\ ~csv.flags.commit
  /\ csv.stats.products_inserted > 0
  /\ csv.after.crosswalks # db.crosswalks

(***************************************************************************)
(* Properties of the worker                                                *)
(***************************************************************************)
\* C8: when a statement of a record fails (before or inside the try block,
\* with or without overwrite), the store holds none of the writes or deletes
\* of that record and is exactly what it was before the record, so the rows
\* committed for earlier records are unchanged.
C8_RecordAtomic ==
  (prog = "wk" /\ wk.cause = "write") => db = wk.before

\* A statement failed after the record had written or deleted rows, in a run
\* that had committed an earlier record.
C8_Witness ==
  /\ prog = "wk"
  /\ wk.cause = "write"
  /\ wk.pending # wk.before
  /\ wk.wrote
  /\ wk.overwrite

\* C10: when the annotation call of record k has exhausted its retries, the
\* run goes on, and record k is in the store with the risk flags derived from
\* its ingredients.
C10_AnnotationFailureIsolated ==
  (prog = "wk" /\ wk.cause = "annotation") =>
     /\ wk.pc # "aborted"
     /\ \E p \in db.products :
          /\ p.id = wk.pid
          /\ \E v \in db.vectors :
               /\ v.product_id = p.id
               /\ v.risk_flags = infer_risk_flags_from_ingredients(wk.sku.ingredients)

\* C11: the index of normalised identities sees the inserts of the run: a
\* record of a run never inserts a product whose normalised identity key
\* (normalize_match_key of brand and of name) is the key of a product that
\* an earlier record of the same run inserted.
C11_IndexSeesInserts ==
  [][(prog = "wk" /\ wk.pc = "running" /\ wk.wrote) =>
       \A p \in db'.products :
          p.id \notin {q.id : q \in db.products} =>
             \A q \in db.products : MatchKey(q.brand, q.name) # MatchKey(p.brand, p.name)]_vars

(***************************************************************************)
(* Properties of single functions                                          *)
(***************************************************************************)
\* C12: in every ingestion path (ingest_one, ingest_rows, the index of the
\* conflict exporter) a record whose brand and name differ from those of the
\* stored product only in letter case or diacritics is resolved to that
\* product, and the path adds no product to the store.
C12_OneIdentityEquality ==
  LET base(t) == CaseFold([i \in 1..Len(t) |-> NfkdBase(t[i])])
  IN (/\ prog = "fn"
      /\ fn.pc = "returned"
      /\ fn.call \in {"find_product_id_loose", "ingest_rows", "detect_conflicts"}
      /\ base(fn.brand) = base(fn.stored.brand)
      /\ base(fn.name) = base(fn.stored.name))
     => fn.result.found = "p1" /\ fn.result.products = db.products

(***************************************************************************)
(* Properties of the risk flags                                            *)
(***************************************************************************)

\* C13: an ingredient text that holds a strong-acid term and a mild-acid term,
\* wherever they stand in the list, is flagged strong_acid and not mild_acid
\* by the deterministic pass and by the pass over the hints, and no returned
\* flag list holds both flags.
C13_AcidFlagsExclusive ==
  (prog = "fn" /\ fn.pc = "returned" /\ fn.call = "postprocess_risk_flags") =>
    LET holds(terms) ==
          \E i \in 1..Len(fn.ingredients_text) :
             \/ TermsIn(fn.ingredients_text[i]) \cap terms # {}
             \/ fn.ingredients_text[i] = "Glycolic Acid" /\ "glycolic acid" \in terms
        set(l) == {l[k] : k \in 1..Len(l)}
    IN \A flags \in {set(fn.result.deterministic), set(fn.result.final)} :
          /\ ~({"strong_acid", "mild_acid"} \subseteq flags)
          /\ (holds(strong_acid_terms) /\ holds(mild_acid_terms))
               => ("strong_acid" \in flags /\ "mild_acid" \notin flags)

\* C14: high_irritation is among the flags of the deterministic pass, and
\* among those of the pass over the hints, exactly when one of retinol_high,
\* strong_acid and benzoyl_peroxide is among them.
C14_HighIrritationIffStrongActive ==
  (prog = "fn" /\ fn.pc = "returned" /\ fn.call = "postprocess_risk_flags") =>
    \A flags \in {{fn.result.deterministic[i] : i \in 1..Len(fn.result.deterministic)},
                  {fn.result.final[i] : i \in 1..Len(fn.result.final)}} :
       "high_irritation" \in flags
         <=> flags \cap {"retinol_high", "strong_acid", "benzoyl_peroxide"} # {}

\* A text with benzoyl peroxide and neither a retinoid nor a strong acid was
\* flagged high_irritation under a hinted "High Irritation".
C14_Witness ==
  /\ (prog = "fn" /\ fn.pc = "returned" /\ fn.call = "postprocess_risk_flags")
  /\ fn.llm_flags = <<"High Irritation">>
  /\ \E i \in 1..Len(fn.result.final) : fn.result.final[i] = "high_irritation"
  /\ \A i \in 1..Len(fn.result.final) : fn.result.final[i] \notin {"retinol_high", "strong_acid"}

\* C15: the flags the pass over the hints returns are the flags the
\* deterministic pass derived from the same text, whatever flags are hinted:
\* a hint is kept only when the deterministic pass derived the flag it maps to.
C15_HintsGatedByEvidence ==
  (prog = "fn" /\ fn.pc = "returned" /\ fn.call = "postprocess_risk_flags") => fn.result.final =
      fn.result.deterministic

\* A hinted "Retinol" was dropped for a text without a retinoid.
C15_Witness ==
  /\ (prog = "fn" /\ fn.pc = "returned" /\ fn.call = "postprocess_risk_flags")
  /\ fn.llm_flags = <<"Retinol">>
  /\ fn.ingredients_text = <<"water", "parfum">>
  /\ fn.result.final = <<"fragrance">>

(***************************************************************************)
(* Properties of the burn rate                                             *)
(***************************************************************************)

\* C16: for every burn rate given to it, calibrate_burn_rate returns a rate
\* between 0 and 1; for a product whose name matches the wash-off lexicon and
\* whose flags hold none of strong_acid, retinol_high, benzoyl_peroxide and
\* high_irritation the rate is at most 0.10, and at most 0.08 when the flags
\* hold none of alcohol_high, fragrance and mint either.
C16_BurnRateCapped ==
  (prog = "fn" /\ fn.pc = "returned" /\ fn.call = "calibrate_burn_rate") =>
    LET has(f) == \E i \in 1..Len(fn.risk_flags) : fn.risk_flags[i] = f
        strong == \E f \in {"strong_acid", "retinol_high", "benzoyl_peroxide",
                            "high_irritation"} : has(f)
        medium == \E f \in {"alcohol_high", "fragrance", "mint"} : has(f)
        at_most(v) == fn.result.kind = "num" /\ fn.result.v <= v
    IN /\ fn.result.kind = "num" /\ fn.result.v >= 0 /\ fn.result.v <= 100
       /\ (looks_like_wash_off_product(fn.product_name) /\ ~strong)
            => (at_most(10) /\ (~medium => at_most(8)))

(***************************************************************************)
(* Properties of the evidence merge                                        *)
(***************************************************************************)

\* C17: merging one fragment into a bucket that holds one fragment differing
\* from it only in letter case, diacritics, hyphen against blank, or the
\* number of blanks leaves the bucket with one fragment.
C17_VariantsMergeToOne ==
  LET canon(c) == CollapseWs([i \in 1..Len(c) |->
                                IF norm_lower(c)[i] = "-" THEN " " ELSE norm_lower(c)[i]])
  IN (/\ prog = "fn" /\ fn.pc = "returned" /\ fn.call = "_merge_expert"
      /\ Len(fn.existing) = 1 /\ Len(fn.new) = 1
      /\ clean_text(fn.existing) # Empty /\ clean_text(fn.new) # Empty
      /\ canon(fn.existing[1]) = canon(fn.new[1]))
     => Len(fn.result.once) = 1

\* C18: merging is idempotent (merging the same text a second time changes
\* nothing), the fragments of the bucket stay at the front of the result in
\* their order and with their text, and the new fragments of the incoming
\* text follow them in its order.
C18_MergeIdempotentMonotone ==
  (prog = "fn" /\ fn.pc = "returned" /\ fn.call = "_merge_expert") =>
    LET frags(t) == SelectSeq(clean_text(t), LAMBDA c : c # Empty)
        once(t) == FirstByKey(t, t)
        old == frags(fn.existing)
        keys == {norm_lower(old[i]) : i \in 1..Len(old)}
        fresh == SelectSeq(frags(fn.new), LAMBDA c : norm_lower(c) \notin keys)
        got == once(frags(fn.result.once))
    IN /\ fn.result.twice = fn.result.once
       /\ SelectSeq(got, LAMBDA c : \E i \in 1..Len(old) : old[i] = c) = once(old)
       /\ SelectSeq(got, LAMBDA c : \A i \in 1..Len(old) : old[i] # c)
            = FirstByKey(fresh, [i \in 1..Len(fresh) |-> norm_lower(fresh[i])])
       /\ \A i \in 1..Len(old) : \A j \in 1..Len(got) :
             (\A k \in 1..Len(old) : old[k] # got[j]) =>
                (\E m \in 1..j : got[m] = old[i])

(***************************************************************************)
(* Properties of the best match                                            *)
(***************************************************************************)

\* The places in sources of the items of the wanted brand (brand), of those
\* whose key is the key of a variant of the wanted name (exact), and of those
\* whose score no item of the brand exceeds (top).
MatchPools ==
  LET key(b) == IF b \in {"lrp", "La Roche-Posay"} THEN "larocheposay" ELSE b
      pool == {i \in 1..Len(fn.sources) : key(fn.sources[i].brand) = key(fn.item_brand)}
      variants == generate_name_candidates(fn.item_name)
      score(i) == FuzzyScore(fn.item_name, fn.sources[i].name)
  IN [brand |-> pool,
      exact |-> {i \in pool :
                   \E v \in 1..Len(variants) :
                      /\ canonical_name_key(variants[v]) # Empty
                      /\ canonical_name_key(variants[v]) =
                             canonical_name_key(fn.sources[i].name)},
      top |-> {i \in pool : \A j \in pool : ~ScoreLt(score(i), score(j))}]

\* C19: when the brand has items and no variant of the name matches one of
\* them exactly, best_match returns no item with the method low_confidence
\* exactly when the highest score among them (Jaccard plus the containment
\* bonus, capped at 1) is below 0.55, and returns an item of that score with
\* the method fuzzy and that score exactly when it is 0.55 or more.
C19_FuzzyBoundary ==
  (/\ prog = "fn" /\ fn.pc = "returned" /\ fn.call = "best_match"
   /\ MatchPools.brand # {} /\ MatchPools.exact = {})
  => LET top == FuzzyScore(fn.item_name, fn.sources[CHOOSE i \in MatchPools.top : TRUE].name)
         below == 100 * top.n < 55 * top.d
     IN /\ (fn.result.method = "low_confidence" /\ fn.result.match = 0) <=> below
        /\ (/\ fn.result.method = "fuzzy"
            /\ fn.result.match \in MatchPools.top
            /\ fn.result.score.n * top.d = top.n * fn.result.score.d) <=> ~below

\* An item scoring exactly 0.55 (two of five tokens and the bonus) was
\* returned as a fuzzy match.
C19_Witness ==
  /\ prog = "fn" /\ fn.pc = "returned" /\ fn.call = "best_match"
  /\ MatchPools.brand # {} /\ MatchPools.exact = {}
  /\ fn.result.method = "fuzzy"
  /\ 100 * fn.result.score.n = 55 * fn.result.score.d

\* C20: when several items of the brand tie for the best result, matched
\* exactly by some variant of the name or sharing the highest fuzzy score, the
\* one returned is the first of them in the order of the pool.
C20_FirstSeenWinsTies ==
  (prog = "fn" /\ fn.pc = "returned" /\ fn.call = "best_match") =>
    LET least(S) == CHOOSE i \in S : \A j \in S : i <= j
    IN /\ MatchPools.exact # {} => fn.result.match = least(MatchPools.exact)
       /\ (MatchPools.exact = {} /\ fn.result.method = "fuzzy")
            => fn.result.match = least(MatchPools.top)

(***************************************************************************)
(* Properties of the identity key and of the URL references                *)
(***************************************************************************)

\* C21: two records whose normalised brands differ or whose normalised names
\* differ never get the same identity key.
C21_IdentityKeyInjective ==
  (/\ prog = "fn" /\ fn.pc = "returned" /\ fn.call = "identity_key"
   /\ \/ normalize_key(fn.first.brand) # normalize_key(fn.second.brand)
      \/ normalize_key(fn.first.name) # normalize_key(fn.second.name))
  => fn.result.first # fn.result.second

\* C22: two http or https URLs that differ only in the letter case of the
\* host, the query string, the fragment, repeated path separators or a
\* trailing slash get the same reference key, and canonicalize_url_reference
\* returns the empty key for a reference that is not an http or https URL.
C22_UrlKeysAgree ==
  (prog = "fn" /\ fn.pc = "returned" /\ fn.call = "normalize_crosswalk_ref_by_type") =>
    /\ fn.result.first = fn.result.second
    /\ fn.result.other = Empty

\* "https://B.C//p///1/?x=/y#a/" and "https://B.c/p/1" got the key "b.c/p/1".
C22_Witness ==
  /\ prog = "fn" /\ fn.pc = "returned" /\ fn.call = "normalize_crosswalk_ref_by_type"
  /\ fn.first = <<"https", ":", "/", "/", "B", ".", "C", "/", "/", "p", "/", "/", "/", "1", "/",
                  "?", "x", "=", "/", "y", "#", "a", "/">>
  /\ fn.second = <<"https", ":", "/", "/", "B", ".", "c", "/", "p", "/", "1">>
  /\ fn.result.first = <<"b", ".", "c", "/", "p", "/", "1">>
  /\ fn.result.second = fn.result.first

(***************************************************************************)
(* Properties of the conflict exporter                                     *)
(***************************************************************************)

\* C23: a run of the exporter without --apply leaves product_crosswalks as it
\* is; a run with --apply deletes exactly the mappings of the given
\* source_system and source_type whose normalised reference is in a reported
\* conflict; a step of the reviewed-CSV ingest neither deletes a stored
\* mapping nor gives it another product.
C23_CleanupOnlyOnApply ==
  [][/\ (prog = "fn" /\ fn.call = "export_crosswalk_conflicts" /\ fn'.pc = "returned") =>
          db'.crosswalks =
            {r \in db.crosswalks :
               ~(/\ fn.apply
                 /\ r.source_system = fn.source_system
                 /\ r.source_type = fn.source_type
                 /\ \E c \in fn'.result.conflicts :
                       c.source_ref_normalized = r.external_ref_normalized)}
     /\ prog = "csv" =>
          /\ \A r \in db.crosswalks :
                \E q \in db'.crosswalks :
                   /\ q.source_system = r.source_system
                   /\ q.source_type = r.source_type
                   /\ q.external_ref_normalized = r.external_ref_normalized
                   /\ q.product_id = r.product_id
          /\ \A r \in tx.crosswalks :
                \A q \in tx'.crosswalks :
                   (/\ q.source_system = r.source_system
                    /\ q.source_type = r.source_type
                    /\ q.external_ref_normalized = r.external_ref_normalized)
                   => q.product_id = r.product_id]_vars

\* A run with --apply deleted the mapping of a reference claimed by a row of
\* another product and left the mappings of the same reference under another
\* source_type and under another source_system.
C23_Witness ==
  /\ prog = "fn" /\ fn.pc = "returned" /\ fn.call = "export_crosswalk_conflicts"
  /\ fn.apply
  /\ fn.result.deleted = 1
  /\ Cardinality(fn.existing) = 4
  /\ Cardinality(db.crosswalks) = 3
  /\ \E r \in db.crosswalks : r.source_type = "canonical_url"
  /\ \E r \in db.crosswalks : r.source_system = "other"

(***************************************************************************)
(* Properties of the sheet merger                                          *)
(***************************************************************************)

\* C24: a row of a comparison sheet never replaces a non-empty ingredient
\* list of a product, nor a category other than "Treatment"; whatever the
\* sheet, the brand is replaced only while it is "Unknown" and the price pair
\* only while it is the default pair (35.0, 250.0).
C24_ExclusiveFieldsKept ==
  [][(prog = "fn" /\ fn.call = "upsert_product") =>
       \A old \in fn.by_key : \A new \in fn'.by_key :
          /\ (fn'.sheet # "Ingredients_Collected" /\ old.ingredients # "")
               => new.ingredients = old.ingredients
          /\ (fn'.sheet # "Ingredients_Collected" /\ old.category # "Treatment")
               => new.category = old.category
          /\ old.brand # "Unknown" => new.brand = old.brand
          /\ old.price # <<35, 250>> => new.price = old.price]_vars

\* A product with the ingredient list "water", the category "Serum" and a
\* known price has seen three rows, the last one from a comparison sheet.
C24_Witness ==
  /\ prog = "fn" /\ fn.call = "upsert_product"
  /\ fn.merged = 3
  /\ fn.sheet = "Comparison_Serums"
  /\ \E p \in fn.by_key :
        /\ p.ingredients = "water" /\ p.category = "Serum"
        /\ p.brand = "Avene" /\ p.price = <<12, 88>>

\* C26: when a commit run has ended that found an expected relation missing
\* (a target table of the ingredient-KB ingester, or product_crosswalks with
\* --upsert-crosswalks in the reviewed-CSV ingest), the store is as it was
\* before the run.
C26_PreflightAbort ==
  /\ (/\ prog = "kb" /\ kb.pc \in {"done", "aborted"}
      /\ kb.flags.commit /\ ~kb.tables) => db = kb.start
  /\ (/\ prog = "csv" /\ csv.pc \in {"done", "aborted"}
      /\ csv.flags.commit /\ csv.flags.upsert_crosswalks /\ ~csv.has.crosswalks)
     => db = csv.start

\* C28: for each social provider the burn rate committed by ingest_one is at
\* least 0.12 when the final risk flags hold strong_acid, retinol_high,
\* benzoyl_peroxide or high_irritation, and at most 0.10 for a wash-off name
\* without such a flag.
C28_PersistedBurnRateCalibrated ==
  (prog = "fn" /\ fn.pc = "returned" /\ fn.call = "insert_social_stats") =>
    LET strong == \E i \in 1..Len(fn.risk_flags) :
                    fn.risk_flags[i] \in {"strong_acid", "retinol_high", "benzoyl_peroxide",
                                          "high_irritation"}
    IN /\ strong => (fn.result.kind = "num" /\ fn.result.v >= 12)
       /\ (looks_like_wash_off_product(fn.product_name) /\ ~strong)
            => (fn.result.kind = "num" /\ fn.result.v <= 10)

\* C25: the risk flags stored for a product are the deterministic
\* classification of the ingredient list stored for it.
C25_RiskFlagsFollowIngredients ==
  \A v \in db.vectors, r \in db.ingredients :
    v.product_id = r.product_id =>
      v.risk_flags = infer_risk_flags_from_ingredients(r.full_list)

(***************************************************************************)
(* Properties of build_rows                                                *)
(***************************************************************************)
\* C27: build_rows returns one row for each identity key of the records that
\* pass the filters and no other row; the row of a key is the first of the
\* records of that key with the highest completeness score.
C27_SeedRowFirstBest ==
  (prog = "fn" /\ fn.pc = "returned" /\ fn.call = "build_rows") =>
    LET one(i) == build_rows(<<fn.df[i]>>)
        kept == {i \in 1..Len(fn.df) : one(i).stats.rows_ready = 1}
        key(i) == IdentityKey(one(i).rows[1].brand, one(i).rows[1].name)
        score(i) == one(i).rows[1].score
        rows == fn.result.rows
        at(k) == {n \in 1..Len(rows) : IdentityKey(rows[n].brand, rows[n].name) = k}
    IN /\ \A i \in kept :
            /\ Cardinality(at(key(i))) = 1
            /\ \A n \in at(key(i)) :
                 LET s == rows[n].row_index + 1
                 IN /\ s \in kept
                    /\ key(s) = key(i)
                    /\ rows[n].score = score(s)
                    /\ \A j \in kept :
                         key(j) = key(i) =>
                           (score(j) < score(s) \/ (score(j) = score(s) /\ s <= j))
       /\ \A n \in 1..Len(rows) :
            \E i \in kept : key(i) = IdentityKey(rows[n].brand, rows[n].name)

\* A run in which a later record replaced the first one of its key and a still
\* later record of the same key tied with the replacement.
C27_Witness ==
  /\ prog = "fn" /\ fn.pc = "returned" /\ fn.call = "build_rows"
  /\ fn.result.stats.dedup_replaced = 1
  /\ fn.result.stats.dedup_ignored = 1
  /\ Len(fn.result.rows) = 1
  /\ fn.result.rows[1].row_index = 1
  /\ build_rows(<<fn.df[3]>>).rows[1].score = fn.result.rows[1].score

\* C29: input_rows is the sum of the four skip counters, dedup_replaced,
\* dedup_ignored and rows_ready.
C29_RowsAccounted ==
  (prog = "fn" /\ fn.pc = "returned" /\ fn.call = "build_rows") =>
    LET stats == fn.result.stats
    IN /\ stats.input_rows = Len(fn.df)
       /\ stats.input_rows =
            stats.skipped_missing_brand_or_name + stats.skipped_not_review_ok
            + stats.skipped_needs_source + stats.skipped_empty_ingredients
            + stats.dedup_replaced + stats.dedup_ignored + stats.rows_ready

\* A run with a skipped record, a replaced row and a kept row.
C29_Witness ==
  /\ prog = "fn" /\ fn.pc = "returned" /\ fn.call = "build_rows"
  /\ fn.result.stats.skipped_empty_ingredients = 1
  /\ fn.result.stats.dedup_replaced = 1
  /\ fn.result.stats.rows_ready = 1

\* C30: duplicate_conflicts is positive exactly when two records that pass
\* the filters have one identity key and different ingredient signatures; a
\* record whose signature is that of every earlier record of its key leaves
\* the counter as it is.
C30_ConflictsIffDisagree ==
  (prog = "fn" /\ fn.pc = "returned" /\ fn.call = "build_rows") =>
    LET one(i) == build_rows(<<fn.df[i]>>)
        kept == {i \in 1..Len(fn.df) : one(i).stats.rows_ready = 1}
        key(i) == IdentityKey(one(i).rows[1].brand, one(i).rows[1].name)
        sig(i) == [k \in 1..Len(one(i).rows[1].ingredient_list) |->
                     normalize_key(one(i).rows[1].ingredient_list[k])]
        conflicts(n) == build_rows(SubSeq(fn.df, 1, n)).stats.duplicate_conflicts
    IN /\ (fn.result.stats.duplicate_conflicts > 0)
            <=> (\E i, j \in kept : key(i) = key(j) /\ sig(i) # sig(j))
       /\ \A n \in kept :
            (\A m \in kept : (m < n /\ key(m) = key(n)) => sig(m) = sig(n))
              => conflicts(n) = conflicts(n - 1)

\* A run in which one record repeats the ingredients of its key and another
\* one disagrees with them.
C30_Witness ==
  /\ prog = "fn" /\ fn.pc = "returned" /\ fn.call = "build_rows"
  /\ fn.result.stats.duplicate_conflicts = 1
  /\ fn.result.stats.dedup_ignored + fn.result.stats.dedup_replaced = 2

====
